---------------------------- MODULE Spec2Model ----------------------------
(***************************************************************************)
(* Credential pool manager of flow2api: the TokenManager (access-token     *)
(* refresh behind one asyncio.Lock, error streaks and quarantine), the     *)
(* TokenRefreshScheduler (start/stop and the background refresh loop) and  *)
(* the credential store they share.                                        *)
(*                                                                         *)
(* Every "await" of the source is a point where another task may run, so   *)
(* one action is the code between two awaits of one coroutine.             *)
(***************************************************************************)
EXTENDS Integers, Sequences, FiniteSets, TLC

(***************************************************************************)
(* Bounds of the model                                                     *)
(***************************************************************************)
MaxExch == 2          \* st_to_at exchanges issued in one behaviour
MaxNow == 1           \* seconds the clock may advance
MaxErrors == 3        \* record_error calls counted in one behaviour
MaxThreshold == 2     \* largest error_ban_threshold drawn
MaxLoops == 2         \* scheduler loop tasks created in one behaviour
MaxInflight == 3      \* reservations counted for an unlimited capability
MaxCreates == 2       \* create_project calls issued for one credential
MaxSessions == 2      \* admin session tokens issued in one behaviour

(***************************************************************************)
(* Program constants                                                       *)
(***************************************************************************)
RefreshLeadTime == 3600       \* is_at_valid: "< 3600" seconds

NoApp == 0                    \* app = None (admin.py line 18)
NoExpiry == -1                \* at_expires = None
NoTask == "none"              \* nobody holds the lock / no task object
NoTier == 0                   \* user_paygate_tier = None

TokenIds == {1, 2}            \* rows of the tokens table
Tasks == {"t1", "t2"}         \* concurrently running request handlers
LoopIds == 1..MaxLoops        \* loop tasks made by asyncio.create_task
ExpiryOffsets == {3599, 3601} \* lifetimes carried by an exchange response
CreditValues == {10}          \* balances reported by get_credits
Tiers == {1}                  \* userPaygateTier reported by get_credits

VARIABLES
    tokens,       \* tokens table: id -> row (see TokenRow)
    stats,        \* token_stats table: id -> [error_count, today_error_count,
                  \*                           consecutive_error_count]
    threshold,    \* admin_config.error_ban_threshold
    lock,         \* TokenManager._lock: the task holding it, or NoTask
    now,          \* wall clock, seconds
    nExch,        \* st_to_at calls issued so far (those that filled the
                  \* initial rows included); call k returns access token k
    pc,           \* per request task: the await it is suspended at
    loc,          \* per request task: its local variables
    enabled,      \* TokenRefreshScheduler.enabled
    task,         \* TokenRefreshScheduler.task: a loop id, or 0 for None
    lp,           \* per loop task: its position and local variables
    hist,         \* history of calls, read by the properties only
    projects,     \* projects table: a set of [project_id, token_id] rows
    ledger,       \* ConcurrencyManager: id -> in-flight count per capability
    nextId,       \* the id the store gives the next inserted tokens row
    app,          \* admin.app: the registered app instance, or NoApp for None
    at_auto_refresh_enabled,  \* token_refresh_config.at_auto_refresh_enabled
    active_admin_tokens       \* admin.active_admin_tokens: session tokens

vars == <<tokens, stats, threshold, lock, now, nExch, pc, loc,
          enabled, task, lp, hist, projects, ledger, nextId,
          app, at_auto_refresh_enabled, active_admin_tokens>>

adminVars == <<app, at_auto_refresh_enabled, active_admin_tokens>>

poolVars == <<projects, ledger, nextId>>

schedVars == <<enabled, task, lp>>
tmVars == <<lock, pc, loc>>

(***************************************************************************)
(* The credential store (Database, aiosqlite)                              *)
(***************************************************************************)

\* the exchanges of one behaviour are bounded
CanExchange == nExch < Cardinality(TokenIds) + MaxExch

\* a row of the tokens table as add_token stores it
TokenRow(st, at, exp, active) ==
    [st |-> st, at |-> at, at_expires |-> exp, is_active |-> active,
     credits |-> 0, user_paygate_tier |-> NoTier,
     current_project_id |-> st, current_project_name |-> st,
     remark |-> 0, image_enabled |-> TRUE, video_enabled |-> TRUE,
     image_concurrency |-> -1, video_concurrency |-> -1]

StatsRow(e, c) ==
    [error_count |-> e, today_error_count |-> e, consecutive_error_count |-> c]

\* UPDATE tokens SET <fields> WHERE id = ?  -- no row, no change
DbUpdateToken(tk, id, fields) ==
    IF id \in DOMAIN tk
    THEN [tk EXCEPT ![id] = [f \in DOMAIN tk[id] |->
             IF f \in DOMAIN fields THEN fields[f] ELSE tk[id][f]]]
    ELSE tk

\* increment_token_stats(id, "error")
DbIncrementError(ss, id) ==
    IF id \in DOMAIN ss
    THEN [ss EXCEPT ![id] = [error_count |-> @.error_count + 1,
                             today_error_count |-> @.today_error_count + 1,
                             consecutive_error_count |-> @.consecutive_error_count + 1]]
    ELSE ss

\* reset_error_count(id)
DbResetErrorCount(ss, id) ==
    IF id \in DOMAIN ss
    THEN [ss EXCEPT ![id].consecutive_error_count = 0]
    ELSE ss

(***************************************************************************)
(* History kept for the properties: it is written, never read, by the      *)
(* actions (but for the bound that ends the count of creates).             *)
(*   errDone[id]   record_error calls on id that have returned             *)
(*   succ[id]      a record_success on id has reset the counter            *)
(*   streak[id]    record_error increments on id since the last reset      *)
(*   fresh[t]      t is in record_error and no reset of its credential's   *)
(*                 counter has happened since t's increment                *)
(*   stopped       a stop() call has returned and no start() call has      *)
(*                 begun since that stop() call began                      *)
(*   startSince[t] a start() call has begun since t's stop() call began    *)
(*   lastStart     what the last start() call since the last stop() did:   *)
(*                 "created" a loop task ("resumed" when it began after a  *)
(*                 stop() call had returned), or returned at once ("noop") *)
(*   halted        the loop tasks that were in the sleep between cycles or *)
(*                 in the back-off when a stop() call cleared enabled, and *)
(*                 have not ended since                                    *)
(*   creates[id]   create_project calls issued by ensure_project_exists    *)
(*                 for credential id                                       *)
(*   issued        session tokens handed out by admin_login                *)
(*   revoked       session tokens logged out since, or issued before a     *)
(*                 change_password call returned successfully              *)
(*   interleaved   session tokens issued while a change_password call was  *)
(*                 under way                                               *)
(***************************************************************************)
HistInit ==
    [errDone |-> [i \in TokenIds |-> 0],
     succ |-> [i \in TokenIds |-> FALSE],
     streak |-> [i \in TokenIds |-> 0],
     fresh |-> [t \in Tasks |-> FALSE],
     stopped |-> FALSE,
     startSince |-> [t \in Tasks |-> FALSE],
     lastStart |-> "none",
     halted |-> {},
     creates |-> [i \in TokenIds |-> 0],
     issued |-> {},
     revoked |-> {},
     interleaved |-> {}]

\* the counter of credential id is reset: calls in flight on it are stale
StaleFor(id) == [u \in Tasks |-> hist.fresh[u] /\ loc[u].id # id]

(***************************************************************************)
(* TokenManager                                                            *)
(***************************************************************************)
IdleLoc == [op |-> "none", id |-> 0, st |-> 0, at |-> 0, exp |-> NoExpiry,
            credits |-> 0, cnt |-> 0, args |-> <<>>, ret |-> FALSE,
            project |-> 0, err |-> "none", cap |-> "none", cands |-> <<>>,
            kept |-> {}, sel |-> 0, tier |-> NoTier]

\* the local frame a call starts with
Frame(op, id) == [IdleLoc EXCEPT !.op = op, !.id = id]

\* is_at_valid, lines 222-244: the three tests that send it to _refresh_at
NeedsRefreshLe(tok, t) ==
    \/ tok.at = 0
    \/ tok.at_expires = NoExpiry
    \/ tok.at_expires - t <= RefreshLeadTime

NeedsRefresh(tok, t) ==
    \/ tok.at = 0
    \/ tok.at_expires = NoExpiry
    \/ tok.at_expires - t < RefreshLeadTime

(***************************************************************************)
(* ConcurrencyManager and LoadBalancer                                     *)
(***************************************************************************)
Capabilities == {"image", "video"}

\* the credential's column that holds the cap of a capability
CapColumn == [image |-> "image_concurrency", video |-> "video_concurrency"]

\* the credential's column that holds the enable flag of a capability
FlagColumn == [image |-> "image_enabled", video |-> "video_enabled"]

\* the configured cap of credential id for capability c
CapOf(id, c) == tokens[id][CapColumn[c]]

\* a saturation test that lets one reservation too many through
SaturatedAbove(count, cap) == cap # -1 /\ count > cap

\* the count has reached the cap; -1 never saturates
Saturated(count, cap) == cap # -1 /\ count >= cap

\* currentLoad(id, c)
CurrentLoad(id, c) == ledger[id][c]

\* a call of tryAcquire or release on a credential the ledger knows
CallLedger(t, op, id, c) ==
    /\ pc[t] = "idle"
    /\ pc' = [pc EXCEPT ![t] = "cm_run"]
    /\ loc' = [loc EXCEPT ![t] = [Frame(op, id) EXCEPT !.cap = c]]
    /\ UNCHANGED <<tokens, stats, threshold, adminVars, poolVars, lock, now, nExch, schedVars, hist>>

\* tryAcquire: one atomic step, either the increment and True or, on
\* saturation, False and no change
TryAcquire(t) ==
    /\ pc[t] = "cm_run"
    /\ loc[t].op = "try_acquire"
    /\ LET id == loc[t].id
           c == loc[t].cap
       IN  IF Saturated(CurrentLoad(id, c), CapOf(id, c))
           THEN /\ UNCHANGED ledger
                /\ loc' = [loc EXCEPT ![t].ret = FALSE]
           ELSE /\ CurrentLoad(id, c) < MaxInflight
                /\ ledger' = [ledger EXCEPT ![id][c] = @ + 1]
                /\ loc' = [loc EXCEPT ![t].ret = TRUE]
    /\ pc' = [pc EXCEPT ![t] = "done"]
    /\ UNCHANGED <<tokens, stats, threshold, adminVars, projects, nextId, lock, now, nExch, schedVars, hist>>

\* release: one atomic step, the decrement with a floor of zero
Release(t) ==
    /\ pc[t] = "cm_run"
    /\ loc[t].op = "release"
    /\ ledger' = [ledger EXCEPT ![loc[t].id][loc[t].cap] =
                                   IF @ > 0 THEN @ - 1 ELSE 0]
    /\ pc' = [pc EXCEPT ![t] = "done"]
    /\ loc' = [loc EXCEPT ![t].ret = TRUE]
    /\ UNCHANGED <<tokens, stats, threshold, adminVars, projects, nextId, lock, now, nExch, schedVars, hist>>

\* a row that is eligible whatever its is_active says
EligibleEnabledOnly(row, c) == row[FlagColumn[c]]

\* step 1 of the selection: an active credential with capability c enabled
Eligible(row, c) == row.is_active /\ row[FlagColumn[c]]

\* the ids of S in ascending order
RECURSIVE IdsInOrder(_)
IdsInOrder(S) ==
    IF S = {} THEN <<>>
    ELSE LET least == CHOOSE i \in S : \A j \in S : i <= j
         IN  <<least>> \o IdsInOrder(S \ {least})

\* step 3: the candidate with the least current load, ties to the smallest id
LeastLoaded(S, c) ==
    CHOOSE i \in S :
        \A j \in S : \/ CurrentLoad(i, c) < CurrentLoad(j, c)
                     \/ CurrentLoad(i, c) = CurrentLoad(j, c) /\ i <= j

\* the result when no candidate remains
NoAvailableCredential == 0

\* a caller asks for a credential able to serve capability c
CallSelect(t, c) ==
    /\ pc[t] = "idle"
    /\ pc' = [pc EXCEPT ![t] = "lb_list"]
    /\ loc' = [loc EXCEPT ![t] = [Frame("select", 0) EXCEPT !.cap = c]]
    /\ UNCHANGED <<tokens, stats, threshold, adminVars, poolVars, lock, now, nExch, schedVars, hist>>

\* the selection goes on after candidate number i - 1: either it starts the
\* is_at_valid call of candidate i, or, the candidates exhausted, it selects
\* (steps 3 and 4) and returns
LbAdvance(t, cands, kept, i) ==
    IF i <= Len(cands)
    THEN /\ pc' = [pc EXCEPT ![t] = "v_read"]
         /\ loc' = [loc EXCEPT ![t].cands = cands, ![t].kept = kept,
                               ![t].cnt = i, ![t].id = cands[i]]
    ELSE /\ pc' = [pc EXCEPT ![t] = "done"]
         /\ loc' = [loc EXCEPT ![t].cands = cands, ![t].kept = kept,
                               ![t].cnt = i,
                               ![t].ret = kept # {},
                               ![t].sel = IF kept = {}
                                          THEN NoAvailableCredential
                                          ELSE LeastLoaded(kept, loc[t].cap)]

\* step 2, as is_at_valid returns `value` for the candidate: it is kept when
\* the answer is True and its current load is not saturated; the selection
\* goes on without an await
LbCheck(t, value) ==
    LET id == loc[t].id
        c == loc[t].cap
        ok == /\ value
              /\ id \in DOMAIN ledger
              /\ ~Saturated(CurrentLoad(id, c), CapOf(id, c))
    IN  LbAdvance(t, loc[t].cands,
                  IF ok THEN loc[t].kept \cup {id} ELSE loc[t].kept,
                  loc[t].cnt + 1)

\* step 1: the read of the eligible set
LbList(t) ==
    /\ pc[t] = "lb_list"
    /\ LbAdvance(t, IdsInOrder({i \in DOMAIN tokens :
                                    Eligible(tokens[i], loc[t].cap)}), {}, 1)
    /\ UNCHANGED <<tokens, stats, threshold, adminVars, poolVars, lock, now, nExch, schedVars, hist>>

\* is_at_valid or _refresh_at returns `value`: to the endpoint or the load
\* balancer, or into refresh_credits, which goes on only when it is True
Return(t, value) ==
    IF loc[t].op = "refresh_credits" /\ value
    THEN /\ pc' = [pc EXCEPT ![t] = "c_read2"]
         /\ UNCHANGED loc
    ELSE IF loc[t].op = "select"
         THEN LbCheck(t, value)
         ELSE /\ pc' = [pc EXCEPT ![t] = "done"]
              /\ loc' = [loc EXCEPT ![t].ret = value]

\* admin.refresh_at -> token_manager._refresh_at(token_id)
CallRefreshAt(t, id) ==
    /\ pc[t] = "idle"
    /\ pc' = [pc EXCEPT ![t] = "r_lock"]
    /\ loc' = [loc EXCEPT ![t] = Frame("refresh_at", id)]
    /\ UNCHANGED <<tokens, stats, threshold, adminVars, poolVars, lock, now, nExch, schedVars, hist>>

\* load balancer / refresh_credits -> is_at_valid(token_id)
CallIsAtValid(t, id) ==
    /\ pc[t] = "idle"
    /\ pc' = [pc EXCEPT ![t] = "v_read"]
    /\ loc' = [loc EXCEPT ![t] = Frame("is_at_valid", id)]
    /\ UNCHANGED <<tokens, stats, threshold, adminVars, poolVars, lock, now, nExch, schedVars, hist>>

\* is_at_valid, from db.get_token to its return or its call of _refresh_at
IsAtValidRead(t) ==
    /\ pc[t] = "v_read"
    /\ IF loc[t].id \notin DOMAIN tokens
       THEN Return(t, FALSE)
       ELSE IF NeedsRefresh(tokens[loc[t].id], now)
            THEN /\ pc' = [pc EXCEPT ![t] = "r_lock"]
                 /\ UNCHANGED loc
            ELSE Return(t, TRUE)
    /\ UNCHANGED <<tokens, stats, threshold, adminVars, poolVars, lock, now, nExch, schedVars, hist>>

\* an entry that does not look at the lock
LockIgnored(t) == TRUE

\* async with self._lock: entered only when nobody holds the lock
LockFree(t) == lock = NoTask

RefreshAcquire(t) ==
    /\ pc[t] = "r_lock"
    /\ LockFree(t)
    /\ lock' = t
    /\ pc' = [pc EXCEPT ![t] = "r_read"]
    /\ UNCHANGED <<tokens, stats, threshold, adminVars, poolVars, now, nExch, loc, schedVars, hist>>

\* db.get_token under the lock; a missing row returns False, otherwise
\* flow_client.st_to_at(token.st) is issued
RefreshRead(t) ==
    /\ pc[t] = "r_read"
    /\ IF loc[t].id \notin DOMAIN tokens
       THEN /\ Return(t, FALSE)
            /\ lock' = NoTask
            /\ UNCHANGED nExch
       ELSE /\ CanExchange
            /\ nExch' = nExch + 1
            /\ pc' = [pc EXCEPT ![t] = "r_exch"]
            /\ loc' = [loc EXCEPT ![t].st = tokens[loc[t].id].st,
                                  ![t].at = nExch + 1]
            /\ UNCHANGED lock
    /\ UNCHANGED <<tokens, stats, threshold, adminVars, poolVars, now, schedVars, hist>>

\* st_to_at answers: access token and expiry (absent or unparsable: None)
RefreshExchangeOk(t, exp) ==
    /\ pc[t] = "r_exch"
    /\ pc' = [pc EXCEPT ![t] = "r_write"]
    /\ loc' = [loc EXCEPT ![t].exp = exp]
    /\ UNCHANGED <<tokens, stats, threshold, adminVars, poolVars, lock, now, nExch, schedVars, hist>>

\* st_to_at raises
RefreshExchangeFail(t) ==
    /\ pc[t] = "r_exch"
    /\ pc' = [pc EXCEPT ![t] = "r_disable"]
    /\ UNCHANGED <<tokens, stats, threshold, adminVars, poolVars, lock, now, nExch, loc, schedVars, hist>>

\* a store that leaves a column alone when the value given for it is None
RefreshWriteKeepsExpiry(t) ==
    /\ pc[t] = "r_write"
    /\ tokens' = DbUpdateToken(tokens, loc[t].id,
                               IF loc[t].exp = NoExpiry
                               THEN [at |-> loc[t].at]
                               ELSE [at |-> loc[t].at, at_expires |-> loc[t].exp])
    /\ pc' = [pc EXCEPT ![t] = "r_credits"]
    /\ UNCHANGED <<stats, threshold, adminVars, poolVars, lock, now, nExch, loc, schedVars, hist>>

\* db.update_token(token_id, at=new_at, at_expires=new_at_expires), then
\* get_credits(new_at) is issued
RefreshWrite(t) ==
    /\ pc[t] = "r_write"
    /\ tokens' = DbUpdateToken(tokens, loc[t].id,
                               [at |-> loc[t].at, at_expires |-> loc[t].exp])
    /\ pc' = [pc EXCEPT ![t] = "r_credits"]
    /\ UNCHANGED <<stats, threshold, adminVars, poolVars, lock, now, nExch, loc, schedVars, hist>>

RefreshCreditsOk(t, c) ==
    /\ pc[t] = "r_credits"
    /\ pc' = [pc EXCEPT ![t] = "r_wcredits"]
    /\ loc' = [loc EXCEPT ![t].credits = c]
    /\ UNCHANGED <<tokens, stats, threshold, adminVars, poolVars, lock, now, nExch, schedVars, hist>>

\* a balance fetch whose failure was taken for a failed refresh
RefreshCreditsFailFatal(t) ==
    /\ pc[t] = "r_credits"
    /\ pc' = [pc EXCEPT ![t] = "r_disable"]
    /\ UNCHANGED <<tokens, stats, threshold, adminVars, poolVars, lock, now, nExch, loc, schedVars, hist>>

\* get_credits raises: except: pass, return True
RefreshCreditsFail(t) ==
    /\ pc[t] = "r_credits"
    /\ Return(t, TRUE)
    /\ lock' = NoTask
    /\ UNCHANGED <<tokens, stats, threshold, adminVars, poolVars, now, nExch, schedVars, hist>>

\* db.update_token(token_id, credits=...), return True
RefreshWriteCredits(t) ==
    /\ pc[t] = "r_wcredits"
    /\ tokens' = DbUpdateToken(tokens, loc[t].id, [credits |-> loc[t].credits])
    /\ Return(t, TRUE)
    /\ lock' = NoTask
    /\ UNCHANGED <<stats, threshold, adminVars, poolVars, now, nExch, schedVars, hist>>

\* a disable that also forgot the stored access token
DisableFieldsClearing == [is_active |-> FALSE, at |-> 0, at_expires |-> NoExpiry]

\* the fields _refresh_at's except branch writes: disable_token(token_id)
DisableFields == [is_active |-> FALSE]

RefreshDisable(t) ==
    /\ pc[t] = "r_disable"
    /\ tokens' = DbUpdateToken(tokens, loc[t].id, DisableFields)
    /\ Return(t, FALSE)
    /\ lock' = NoTask
    /\ UNCHANGED <<stats, threshold, adminVars, poolVars, now, nExch, schedVars, hist>>

\* a disable failure raised while the lock stays taken
RefreshDisableFailHolds(t) ==
    /\ pc[t] = "r_disable"
    /\ pc' = [pc EXCEPT ![t] = "done"]
    /\ loc' = [loc EXCEPT ![t].ret = FALSE, ![t].err = "Exception"]
    /\ UNCHANGED <<tokens, stats, threshold, adminVars, poolVars, lock, now, nExch, schedVars, hist>>

\* disable_token raises inside the except branch: the exception leaves
\* "async with self._lock", which releases the lock, and reaches the caller
RefreshDisableFail(t) ==
    /\ pc[t] = "r_disable"
    /\ pc' = [pc EXCEPT ![t] = "done"]
    /\ loc' = [loc EXCEPT ![t].ret = FALSE, ![t].err = "Exception"]
    /\ lock' = NoTask
    /\ UNCHANGED <<tokens, stats, threshold, adminVars, poolVars, now, nExch, schedVars, hist>>

\* db.update_token(at, at_expires) raises: except Exception
RefreshWriteFail(t) ==
    /\ pc[t] = "r_write"
    /\ pc' = [pc EXCEPT ![t] = "r_disable"]
    /\ UNCHANGED <<tokens, stats, threshold, adminVars, poolVars, lock, now, nExch, loc, schedVars, hist>>

\* db.get_token raises under the lock, before the try: the exception leaves
\* "async with self._lock" and reaches the caller
RefreshReadFail(t) ==
    /\ pc[t] = "r_read"
    /\ pc' = [pc EXCEPT ![t] = "done"]
    /\ loc' = [loc EXCEPT ![t].ret = FALSE, ![t].err = "Exception"]
    /\ lock' = NoTask
    /\ UNCHANGED <<tokens, stats, threshold, adminVars, poolVars, now, nExch, schedVars, hist>>

\* the caller has taken the result
Finish(t) ==
    /\ pc[t] = "done"
    /\ pc' = [pc EXCEPT ![t] = "idle"]
    /\ loc' = [loc EXCEPT ![t] = IdleLoc]
    /\ UNCHANGED <<tokens, stats, threshold, adminVars, poolVars, lock, now, nExch, schedVars, hist>>


(***************************************************************************)
(* enable_token / disable_token (operator endpoints)                       *)
(***************************************************************************)
CallEnable(t, id) ==
    /\ pc[t] = "idle"
    /\ pc' = [pc EXCEPT ![t] = "en_write"]
    /\ loc' = [loc EXCEPT ![t] = Frame("enable_token", id)]
    /\ UNCHANGED <<tokens, stats, threshold, adminVars, poolVars, lock, now, nExch, schedVars, hist>>

\* db.update_token(token_id, is_active=True)
EnableWrite(t) ==
    /\ pc[t] = "en_write"
    /\ tokens' = DbUpdateToken(tokens, loc[t].id, [is_active |-> TRUE])
    /\ pc' = [pc EXCEPT ![t] = "en_reset"]
    /\ UNCHANGED <<stats, threshold, adminVars, poolVars, lock, now, nExch, loc, schedVars, hist>>

\* db.reset_error_count(token_id)
EnableReset(t) ==
    /\ pc[t] = "en_reset"
    /\ stats' = DbResetErrorCount(stats, loc[t].id)
    /\ hist' = [hist EXCEPT !.streak[loc[t].id] = 0,
                            !.fresh = StaleFor(loc[t].id)]
    /\ pc' = [pc EXCEPT ![t] = "idle"]
    /\ loc' = [loc EXCEPT ![t] = IdleLoc]
    /\ UNCHANGED <<tokens, threshold, adminVars, poolVars, lock, now, nExch, schedVars>>

CallDisable(t, id) ==
    /\ pc[t] = "idle"
    /\ pc' = [pc EXCEPT ![t] = "dis_write"]
    /\ loc' = [loc EXCEPT ![t] = Frame("disable_token", id)]
    /\ UNCHANGED <<tokens, stats, threshold, adminVars, poolVars, lock, now, nExch, schedVars, hist>>

\* db.update_token(token_id, is_active=False)
DisableWrite(t) ==
    /\ pc[t] = "dis_write"
    /\ tokens' = DbUpdateToken(tokens, loc[t].id, [is_active |-> FALSE])
    /\ pc' = [pc EXCEPT ![t] = "idle"]
    /\ loc' = [loc EXCEPT ![t] = IdleLoc]
    /\ UNCHANGED <<stats, threshold, adminVars, poolVars, lock, now, nExch, schedVars, hist>>

(***************************************************************************)
(* record_error / record_success                                           *)
(***************************************************************************)
CallRecordError(t, id) ==
    /\ pc[t] = "idle"
    /\ pc' = [pc EXCEPT ![t] = "er_inc"]
    /\ loc' = [loc EXCEPT ![t] = Frame("record_error", id)]
    /\ UNCHANGED <<tokens, stats, threshold, adminVars, poolVars, lock, now, nExch, schedVars, hist>>

\* db.increment_token_stats(token_id, "error")
ErrIncrement(t) ==
    /\ pc[t] = "er_inc"
    /\ loc[t].id \in DOMAIN stats
    /\ stats[loc[t].id].error_count < MaxErrors
    /\ stats' = DbIncrementError(stats, loc[t].id)
    /\ hist' = [hist EXCEPT !.streak[loc[t].id] = @ + 1, !.fresh[t] = TRUE]
    /\ pc' = [pc EXCEPT ![t] = "er_stats"]
    /\ UNCHANGED <<tokens, threshold, adminVars, poolVars, lock, now, nExch, loc, schedVars>>

\* stats = db.get_token_stats(token_id)
ErrReadStats(t) ==
    /\ pc[t] = "er_stats"
    /\ pc' = [pc EXCEPT ![t] = "er_cfg"]
    /\ loc' = [loc EXCEPT ![t].cnt = stats[loc[t].id].consecutive_error_count]
    /\ UNCHANGED <<tokens, stats, threshold, adminVars, poolVars, lock, now, nExch, schedVars, hist>>

\* stats.consecutive_error_count >= admin_config.error_ban_threshold
ReachedThresholdGt(cnt, limit) == cnt > limit

ReachedThreshold(cnt, limit) == cnt >= limit

\* a comparison against the threshold the process started with
ErrCompareAtStart(t) ==
    /\ pc[t] = "er_cfg"
    /\ IF ReachedThreshold(loc[t].cnt, MaxThreshold)
       THEN /\ pc' = [pc EXCEPT ![t] = "er_disable"]
            /\ UNCHANGED <<loc, hist>>
       ELSE /\ pc' = [pc EXCEPT ![t] = "idle"]
            /\ loc' = [loc EXCEPT ![t] = IdleLoc]
            /\ hist' = [hist EXCEPT !.errDone[loc[t].id] = @ + 1,
                                    !.fresh[t] = FALSE]
    /\ UNCHANGED <<tokens, stats, threshold, adminVars, poolVars, lock, now, nExch, schedVars>>

\* admin_config = db.get_admin_config(), then the comparison
ErrCompare(t) ==
    /\ pc[t] = "er_cfg"
    /\ IF ReachedThreshold(loc[t].cnt, threshold)
       THEN /\ pc' = [pc EXCEPT ![t] = "er_disable"]
            /\ UNCHANGED <<loc, hist>>
       ELSE /\ pc' = [pc EXCEPT ![t] = "idle"]
            /\ loc' = [loc EXCEPT ![t] = IdleLoc]
            /\ hist' = [hist EXCEPT !.errDone[loc[t].id] = @ + 1,
                                    !.fresh[t] = FALSE]
    /\ UNCHANGED <<tokens, stats, threshold, adminVars, poolVars, lock, now, nExch, schedVars>>

\* self.disable_token(token_id)
ErrDisable(t) ==
    /\ pc[t] = "er_disable"
    /\ tokens' = DbUpdateToken(tokens, loc[t].id, [is_active |-> FALSE])
    /\ pc' = [pc EXCEPT ![t] = "idle"]
    /\ loc' = [loc EXCEPT ![t] = IdleLoc]
    /\ hist' = [hist EXCEPT !.errDone[loc[t].id] = @ + 1, !.fresh[t] = FALSE]
    /\ UNCHANGED <<stats, threshold, adminVars, poolVars, lock, now, nExch, schedVars>>

CallRecordSuccess(t, id) ==
    /\ pc[t] = "idle"
    /\ pc' = [pc EXCEPT ![t] = "su_reset"]
    /\ loc' = [loc EXCEPT ![t] = Frame("record_success", id)]
    /\ UNCHANGED <<tokens, stats, threshold, adminVars, poolVars, lock, now, nExch, schedVars, hist>>

\* record_success with a reset that also re-enables the credential
SuccessEffectEnabling(t) ==
    /\ stats' = DbResetErrorCount(stats, loc[t].id)
    /\ tokens' = DbUpdateToken(tokens, loc[t].id, [is_active |-> TRUE])

\* db.reset_error_count(token_id)
SuccessEffect(t) ==
    /\ stats' = DbResetErrorCount(stats, loc[t].id)
    /\ UNCHANGED tokens

SuccessReset(t) ==
    /\ pc[t] = "su_reset"
    /\ SuccessEffect(t)
    /\ hist' = [hist EXCEPT !.streak[loc[t].id] = 0,
                            !.succ[loc[t].id] = TRUE,
                            !.fresh = StaleFor(loc[t].id)]
    /\ pc' = [pc EXCEPT ![t] = "idle"]
    /\ loc' = [loc EXCEPT ![t] = IdleLoc]
    /\ UNCHANGED <<threshold, adminVars, poolVars, lock, now, nExch, schedVars>>


(***************************************************************************)
(* update_admin_config (POST /api/admin/config)                            *)
(***************************************************************************)
\* the values an operator sends as error_ban_threshold
ThresholdValues == 1..(MaxThreshold + 1)

CallUpdateAdminConfig(t, v) ==
    /\ pc[t] = "idle"
    /\ pc' = [pc EXCEPT ![t] = "cfg_write"]
    /\ loc' = [loc EXCEPT ![t] = [Frame("update_admin_config", 0) EXCEPT !.cnt = v]]
    /\ UNCHANGED <<tokens, stats, threshold, adminVars, poolVars, lock, now, nExch, schedVars, hist>>

\* db.update_admin_config(error_ban_threshold=...), then the answer
AdminConfigWrite(t) ==
    /\ pc[t] = "cfg_write"
    /\ threshold' = loc[t].cnt
    /\ pc' = [pc EXCEPT ![t] = "idle"]
    /\ loc' = [loc EXCEPT ![t] = IdleLoc]
    /\ UNCHANGED <<tokens, stats, adminVars, poolVars, lock, now, nExch, schedVars, hist>>


(***************************************************************************)
(* TokenManager.update_token and its callers in the admin API              *)
(***************************************************************************)

\* update_token's parameters and the columns they are stored in
ParamColumn ==
    [st |-> "st", at |-> "at", at_expires |-> "at_expires",
     project_id |-> "current_project_id",
     project_name |-> "current_project_name", remark |-> "remark",
     image_enabled |-> "image_enabled", video_enabled |-> "video_enabled",
     image_concurrency |-> "image_concurrency",
     video_concurrency |-> "video_concurrency"]

\* update_fields: one entry for every parameter that is not None.  args
\* holds the parameters that are not None.
UpdateFields(args) ==
    [c \in {ParamColumn[p] : p \in DOMAIN args} |->
        args[CHOOSE p \in DOMAIN args : ParamColumn[p] = c]]

\* "if update_fields: await self.db.update_token(token_id, **update_fields)"
TmUpdateToken(tk, id, args) ==
    IF DOMAIN UpdateFields(args) # {}
    THEN DbUpdateToken(tk, id, UpdateFields(args))
    ELSE tk

\* f extended and overridden by g
Merge(f, g) ==
    [x \in DOMAIN f \cup DOMAIN g |-> IF x \in DOMAIN g THEN g[x] ELSE f[x]]

\* f without the entries for the names in S
Without(f, S) == [x \in DOMAIN f \ S |-> f[x]]

\* PUT /api/tokens/{token_id}: st_to_at(request.st) is issued first
CallUpdateToken(t, id, req) ==
    /\ pc[t] = "idle"
    /\ CanExchange
    /\ nExch' = nExch + 1
    /\ pc' = [pc EXCEPT ![t] = "up_exch"]
    /\ loc' = [loc EXCEPT ![t] = [Frame("update_token", id) EXCEPT
                                     !.st = req.st, !.at = nExch + 1,
                                     !.args = req]]
    /\ UNCHANGED <<tokens, stats, threshold, adminVars, poolVars, lock, now, schedVars, hist>>

UpdateExchangeOk(t, exp) ==
    /\ pc[t] = "up_exch"
    /\ pc' = [pc EXCEPT ![t] = "up_write"]
    /\ loc' = [loc EXCEPT ![t].exp = exp]
    /\ UNCHANGED <<tokens, stats, threshold, adminVars, poolVars, lock, now, nExch, schedVars, hist>>

\* st_to_at raises: HTTP 500, nothing is written
UpdateExchangeFail(t) ==
    /\ pc[t] = "up_exch"
    /\ pc' = [pc EXCEPT ![t] = "done"]
    /\ UNCHANGED <<tokens, stats, threshold, adminVars, poolVars, lock, now, nExch, loc, schedVars, hist>>

\* the arguments of token_manager.update_token in the endpoint: the request's
\* fields with the exchanged at, and at_expires when the expiry was parsed
EndpointArgs(l) ==
    Merge(l.args,
          IF l.exp = NoExpiry THEN [at |-> l.at]
          ELSE [at |-> l.at, at_expires |-> l.exp])

UpdateWrite(t) ==
    /\ pc[t] = "up_write"
    /\ tokens' = TmUpdateToken(tokens, loc[t].id, EndpointArgs(loc[t]))
    /\ pc' = [pc EXCEPT ![t] = "done"]
    /\ loc' = [loc EXCEPT ![t].ret = TRUE]
    /\ UNCHANGED <<stats, threshold, adminVars, poolVars, lock, now, nExch, schedVars, hist>>

\* POST /api/tokens/import, one entry of the list: get_token_by_st
CallImport(t, data) ==
    /\ pc[t] = "idle"
    /\ pc' = [pc EXCEPT ![t] = "im_lookup"]
    /\ loc' = [loc EXCEPT ![t] = [Frame("import", 0) EXCEPT !.args = data]]
    /\ UNCHANGED <<tokens, stats, threshold, adminVars, poolVars, lock, now, nExch, schedVars, hist>>

\* SELECT * FROM tokens WHERE st = ?: the ids of the rows found
IdsBySt(tk, st) == {i \in DOMAIN tk : tk[i].st = st}

\* the arguments of token_manager.update_token for an entry whose secret is
\* stored: flags default to True and caps to -1, the rest is passed as given
ImportArgs(data) ==
    Merge([image_enabled |-> TRUE, video_enabled |-> TRUE,
           image_concurrency |-> -1, video_concurrency |-> -1],
          Merge(Without(data, {"session_token", "access_token"}),
                IF "access_token" \in DOMAIN data
                THEN [st |-> data.session_token, at |-> data.access_token]
                ELSE [st |-> data.session_token]))

\* a stored secret is updated; an unknown one goes to add_token ("a_check")
ImportLookup(t) ==
    /\ pc[t] = "im_lookup"
    /\ LET found == IdsBySt(tokens, loc[t].args.session_token) IN
       IF found # {}
       THEN /\ pc' = [pc EXCEPT ![t] = "im_update"]
            /\ loc' = [loc EXCEPT ![t].id = CHOOSE i \in found :
                                               \A j \in found : i <= j]
       ELSE /\ pc' = [pc EXCEPT ![t] = "a_check"]
            /\ loc' = [loc EXCEPT ![t].st = loc[t].args.session_token]
    /\ UNCHANGED <<tokens, stats, threshold, adminVars, poolVars, lock, now, nExch, schedVars, hist>>

ImportUpdate(t) ==
    /\ pc[t] = "im_update"
    /\ tokens' = TmUpdateToken(tokens, loc[t].id, ImportArgs(loc[t].args))
    /\ pc' = [pc EXCEPT ![t] = "idle"]
    /\ loc' = [loc EXCEPT ![t] = IdleLoc]
    /\ UNCHANGED <<stats, threshold, adminVars, poolVars, lock, now, nExch, schedVars, hist>>

(***************************************************************************)
(* add_token and delete_token                                              *)
(***************************************************************************)

\* the id the store gives the next inserted row
NewId == nextId

\* a parameter of the call, or its default when it was not passed
Param(args, name, default) ==
    IF name \in DOMAIN args THEN args[name] ELSE default

\* Token(...) as add_token builds it (lines 134-150)
NewRow(l) ==
    [st |-> l.st, at |-> l.at, at_expires |-> l.exp, is_active |-> TRUE,
     credits |-> l.credits, user_paygate_tier |-> l.tier,
     current_project_id |-> l.project,
     current_project_name |-> Param(l.args, "project_name", 0),
     remark |-> Param(l.args, "remark", 0),
     image_enabled |-> Param(l.args, "image_enabled", TRUE),
     video_enabled |-> Param(l.args, "video_enabled", TRUE),
     image_concurrency |-> Param(l.args, "image_concurrency", -1),
     video_concurrency |-> Param(l.args, "video_concurrency", -1)]

\* raise ValueError(...): the endpoint answers 400, the import notes the error
Raise(t) ==
    /\ pc' = [pc EXCEPT ![t] = "done"]
    /\ loc' = [loc EXCEPT ![t].ret = FALSE, ![t].err = "ValueError"]

\* POST /api/tokens -> token_manager.add_token(st=request.st, ...)
CallAddToken(t, req) ==
    /\ pc[t] = "idle"
    /\ pc' = [pc EXCEPT ![t] = "a_check"]
    /\ loc' = [loc EXCEPT ![t] = [Frame("add_token", 0) EXCEPT
                                     !.st = req.st, !.args = req]]
    /\ UNCHANGED <<tokens, stats, threshold, adminVars, poolVars, lock, now, nExch, schedVars, hist>>

\* a check that never finds the secret
SecretStoredNever(tk, st) == FALSE

\* existing_token = await self.db.get_token_by_st(st); "if existing_token"
SecretStored(tk, st) == IdsBySt(tk, st) # {}

\* Step 1: a stored secret raises; otherwise st_to_at(st) is issued
AddCheck(t) ==
    /\ pc[t] = "a_check"
    /\ IF SecretStored(tokens, loc[t].st)
       THEN /\ Raise(t)
            /\ UNCHANGED nExch
       ELSE /\ CanExchange
            /\ nExch' = nExch + 1
            /\ pc' = [pc EXCEPT ![t] = "a_exch"]
            /\ loc' = [loc EXCEPT ![t].at = nExch + 1]
    /\ UNCHANGED <<tokens, stats, threshold, adminVars, poolVars, lock, now, schedVars, hist>>

\* Step 2 answers; Step 3: get_credits(at) is issued
AddExchangeOk(t, exp) ==
    /\ pc[t] = "a_exch"
    /\ pc' = [pc EXCEPT ![t] = "a_credits"]
    /\ loc' = [loc EXCEPT ![t].exp = exp]
    /\ UNCHANGED <<tokens, stats, threshold, adminVars, poolVars, lock, now, nExch, schedVars, hist>>

\* st_to_at raises: raise ValueError
AddExchangeFail(t) ==
    /\ pc[t] = "a_exch"
    /\ Raise(t)
    /\ UNCHANGED <<tokens, stats, threshold, adminVars, poolVars, lock, now, nExch, schedVars, hist>>

\* a Step 4 that creates a project whether or not a project_id was given
AfterCreditsAlwaysCreates(t, c, tier) ==
    /\ pc' = [pc EXCEPT ![t] = "a_project"]
    /\ loc' = [loc EXCEPT ![t].credits = c, ![t].tier = tier]

\* Step 4: a given project_id is used as it is and the row is inserted next;
\* without one, create_project(st, project_name) is issued
AfterCredits(t, c, tier) ==
    IF Param(loc[t].args, "project_id", 0) # 0
    THEN /\ pc' = [pc EXCEPT ![t] = "a_insert"]
         /\ loc' = [loc EXCEPT ![t].credits = c, ![t].tier = tier,
                               ![t].project = loc[t].args.project_id]
    ELSE /\ pc' = [pc EXCEPT ![t] = "a_project"]
         /\ loc' = [loc EXCEPT ![t].credits = c, ![t].tier = tier]

\* get_credits answers: credits and userPaygateTier of the response
AddCreditsOk(t, c) ==
    /\ pc[t] = "a_credits"
    /\ \E tier \in Tiers : AfterCredits(t, c, tier)
    /\ UNCHANGED <<tokens, stats, threshold, adminVars, poolVars, lock, now, nExch, schedVars, hist>>

\* a balance fetch whose failure ended add_token with an error
AddCreditsFailRaises(t) ==
    /\ pc[t] = "a_credits"
    /\ Raise(t)
    /\ UNCHANGED <<tokens, stats, threshold, adminVars, poolVars, lock, now, nExch, schedVars, hist>>

\* get_credits raises: except: credits = 0, user_paygate_tier = None
AddCreditsFail(t) ==
    /\ pc[t] = "a_credits"
    /\ AfterCredits(t, 0, NoTier)
    /\ UNCHANGED <<tokens, stats, threshold, adminVars, poolVars, lock, now, nExch, schedVars, hist>>

\* INSERT INTO tokens: the row is stored under the id
DbAddToken(tk, id, row) ==
    [i \in DOMAIN tk \cup {id} |-> IF i = id THEN row ELSE tk[i]]

AddProjectOk(t, p) ==
    /\ pc[t] = "a_project"
    /\ pc' = [pc EXCEPT ![t] = "a_insert"]
    /\ loc' = [loc EXCEPT ![t].project = p]
    /\ UNCHANGED <<tokens, stats, threshold, adminVars, poolVars, lock, now, nExch, schedVars, hist>>

\* a project step that comes after the row was stored and fails
AddProjectFailStored(t) ==
    /\ pc[t] = "a_project"
    /\ tokens' = DbAddToken(tokens, NewId, NewRow(loc[t]))
    /\ nextId' = nextId + 1
    /\ Raise(t)
    /\ UNCHANGED <<stats, threshold, adminVars, projects, ledger, lock, now, nExch, schedVars, hist>>

\* create_project raises: raise ValueError
AddProjectFail(t) ==
    /\ pc[t] = "a_project"
    /\ Raise(t)
    /\ UNCHANGED <<tokens, stats, threshold, adminVars, poolVars, lock, now, nExch, schedVars, hist>>

\* Step 6: token_id = await self.db.add_token(token)
AddInsert(t) ==
    /\ pc[t] = "a_insert"
    /\ tokens' = DbAddToken(tokens, NewId, NewRow(loc[t]))
    /\ nextId' = nextId + 1
    /\ pc' = [pc EXCEPT ![t] = "a_pinsert"]
    /\ loc' = [loc EXCEPT ![t].id = NewId]
    /\ UNCHANGED <<stats, threshold, adminVars, projects, ledger, lock, now, nExch, schedVars, hist>>

\* Step 7: await self.db.add_project(project); return token
AddInsertProject(t) ==
    /\ pc[t] = "a_pinsert"
    /\ projects' = projects \cup
                     {[project_id |-> loc[t].project, token_id |-> loc[t].id]}
    /\ pc' = [pc EXCEPT ![t] = "done"]
    /\ loc' = [loc EXCEPT ![t].ret = TRUE]
    /\ UNCHANGED <<tokens, stats, threshold, adminVars, ledger, nextId, lock, now, nExch, schedVars, hist>>

\* Step 7 fails: db.add_project raises out of add_token; the tokens row of
\* Step 6 stays
AddInsertProjectFail(t) ==
    /\ pc[t] = "a_pinsert"
    /\ pc' = [pc EXCEPT ![t] = "done"]
    /\ loc' = [loc EXCEPT ![t].ret = FALSE, ![t].err = "Exception"]
    /\ UNCHANGED <<tokens, stats, threshold, adminVars, poolVars, lock, now, nExch, schedVars, hist>>

\* DELETE /api/tokens/{token_id} -> token_manager.delete_token(token_id)
CallDelete(t, id) ==
    /\ pc[t] = "idle"
    /\ pc' = [pc EXCEPT ![t] = "d_delete"]
    /\ loc' = [loc EXCEPT ![t] = Frame("delete_token", id)]
    /\ UNCHANGED <<tokens, stats, threshold, adminVars, poolVars, lock, now, nExch, schedVars, hist>>

\* DELETE FROM tokens WHERE id = ?
DbDeleteToken(tk, id) == [i \in DOMAIN tk \ {id} |-> tk[i]]

\* await self.db.delete_token(token_id)
DeleteWrite(t) ==
    /\ pc[t] = "d_delete"
    /\ tokens' = DbDeleteToken(tokens, loc[t].id)
    /\ pc' = [pc EXCEPT ![t] = "done"]
    /\ loc' = [loc EXCEPT ![t].ret = TRUE]
    /\ UNCHANGED <<stats, threshold, adminVars, poolVars, lock, now, nExch, schedVars, hist>>

(***************************************************************************)
(* ensure_project_exists                                                   *)
(***************************************************************************)
\* the project ids create_project answers with
NewProjects == {8, 9}

CallEnsureProject(t, id) ==
    /\ pc[t] = "idle"
    /\ pc' = [pc EXCEPT ![t] = "p_read"]
    /\ loc' = [loc EXCEPT ![t] = Frame("ensure_project_exists", id)]
    /\ UNCHANGED <<tokens, stats, threshold, adminVars, poolVars, lock, now, nExch, schedVars, hist>>

\* "if token.current_project_id": an empty binding counts as none
Bound(row) == row.current_project_id # 0

\* db.get_token: a missing row raises, a bound one returns its project id,
\* otherwise create_project(token.st, project_name) is issued
EnsureRead(t) ==
    /\ pc[t] = "p_read"
    /\ IF loc[t].id \notin DOMAIN tokens
       THEN /\ Raise(t)
            /\ UNCHANGED hist
       ELSE IF Bound(tokens[loc[t].id])
            THEN /\ pc' = [pc EXCEPT ![t] = "done"]
                 /\ loc' = [loc EXCEPT ![t].ret = TRUE,
                               ![t].project = tokens[loc[t].id].current_project_id]
                 /\ UNCHANGED hist
            ELSE /\ hist.creates[loc[t].id] < MaxCreates
                 /\ pc' = [pc EXCEPT ![t] = "p_create"]
                 /\ loc' = [loc EXCEPT ![t].st = tokens[loc[t].id].st]
                 /\ hist' = [hist EXCEPT !.creates[loc[t].id] = @ + 1]
    /\ UNCHANGED <<tokens, stats, threshold, adminVars, poolVars, lock, now, nExch, schedVars>>

\* create_project answers with the new project's id
EnsureCreateOk(t, p) ==
    /\ pc[t] = "p_create"
    /\ pc' = [pc EXCEPT ![t] = "p_write"]
    /\ loc' = [loc EXCEPT ![t].project = p]
    /\ UNCHANGED <<tokens, stats, threshold, adminVars, poolVars, lock, now, nExch, schedVars, hist>>

\* create_project raises: raise ValueError
EnsureCreateFail(t) ==
    /\ pc[t] = "p_create"
    /\ Raise(t)
    /\ UNCHANGED <<tokens, stats, threshold, adminVars, poolVars, lock, now, nExch, schedVars, hist>>

\* db.update_token(token_id, current_project_id=..., current_project_name=...)
EnsureWrite(t) ==
    /\ pc[t] = "p_write"
    /\ tokens' = DbUpdateToken(tokens, loc[t].id,
                               [current_project_id |-> loc[t].project,
                                current_project_name |-> loc[t].project])
    /\ pc' = [pc EXCEPT ![t] = "p_insert"]
    /\ UNCHANGED <<stats, threshold, adminVars, poolVars, lock, now, nExch, loc, schedVars, hist>>

\* db.add_project(project); return project_id
EnsureInsertProject(t) ==
    /\ pc[t] = "p_insert"
    /\ projects' = projects \cup
                     {[project_id |-> loc[t].project, token_id |-> loc[t].id]}
    /\ pc' = [pc EXCEPT ![t] = "done"]
    /\ loc' = [loc EXCEPT ![t].ret = TRUE]
    /\ UNCHANGED <<tokens, stats, threshold, adminVars, ledger, nextId, lock, now, nExch, schedVars, hist>>

(***************************************************************************)
(* refresh_credits                                                         *)
(***************************************************************************)
CallRefreshCredits(t, id) ==
    /\ pc[t] = "idle"
    /\ pc' = [pc EXCEPT ![t] = "c_read"]
    /\ loc' = [loc EXCEPT ![t] = Frame("refresh_credits", id)]
    /\ UNCHANGED <<tokens, stats, threshold, adminVars, poolVars, lock, now, nExch, schedVars, hist>>

\* db.get_token: a missing row returns 0, otherwise is_at_valid is called
CreditsRead(t) ==
    /\ pc[t] = "c_read"
    /\ pc' = [pc EXCEPT ![t] = IF loc[t].id \in DOMAIN tokens
                                THEN "v_read" ELSE "done"]
    /\ UNCHANGED <<tokens, stats, threshold, adminVars, poolVars, lock, now, nExch, loc, schedVars, hist>>

\* the row is read again and get_credits(token.at) is issued
CreditsReread(t) ==
    /\ pc[t] = "c_read2"
    /\ IF loc[t].id \in DOMAIN tokens
       THEN /\ pc' = [pc EXCEPT ![t] = "c_fetch"]
            /\ loc' = [loc EXCEPT ![t].at = tokens[loc[t].id].at]
       ELSE /\ pc' = [pc EXCEPT ![t] = "done"]
            /\ UNCHANGED loc
    /\ UNCHANGED <<tokens, stats, threshold, adminVars, poolVars, lock, now, nExch, schedVars, hist>>

CreditsFetchOk(t, c) ==
    /\ pc[t] = "c_fetch"
    /\ pc' = [pc EXCEPT ![t] = "c_write"]
    /\ loc' = [loc EXCEPT ![t].credits = c]
    /\ UNCHANGED <<tokens, stats, threshold, adminVars, poolVars, lock, now, nExch, schedVars, hist>>

\* get_credits raises: return 0
CreditsFetchFail(t) ==
    /\ pc[t] = "c_fetch"
    /\ pc' = [pc EXCEPT ![t] = "done"]
    /\ UNCHANGED <<tokens, stats, threshold, adminVars, poolVars, lock, now, nExch, loc, schedVars, hist>>

\* db.update_token(token_id, credits=credits), return credits
CreditsWrite(t) ==
    /\ pc[t] = "c_write"
    /\ tokens' = DbUpdateToken(tokens, loc[t].id, [credits |-> loc[t].credits])
    /\ pc' = [pc EXCEPT ![t] = "done"]
    /\ loc' = [loc EXCEPT ![t].ret = TRUE]
    /\ UNCHANGED <<stats, threshold, adminVars, poolVars, lock, now, nExch, schedVars, hist>>

\* time passes
Tick ==
    /\ now < MaxNow
    /\ now' = now + 1
    /\ UNCHANGED <<tokens, stats, threshold, adminVars, poolVars, lock, nExch, pc, loc, schedVars, hist>>

(***************************************************************************)
(* TokenRefreshScheduler                                                   *)
(***************************************************************************)
\* The loop task's frame.  pc is the await it is suspended at:
\*   "none"     not created            "l_new"     created, not yet run
\*   "l_select" connect / SELECT       "l_exch"    st_to_at
\*   "l_write"  UPDATE at, at_expires  "l_credits" get_credits
\*   "l_wcredits" UPDATE credits       "l_commit"  commit
\*   "l_disable" UPDATE is_active = 0 and its commit
\*   "l_close"  leaving "async with"   "l_sleep", "l_backoff"  asyncio.sleep
\*   "done"     the task has finished
\* cancel: task.cancel() was called and CancelledError is not yet delivered.
IdleLoop == [pc |-> "none", snap |-> <<>>, i |-> 0, at |-> 0, exp |-> NoExpiry,
             credits |-> -1, cancel |-> FALSE]

DoneLoop == [IdleLoop EXCEPT !.pc = "done"]

Running(l) == lp[l].pc \notin {"none", "done"}

RECURSIVE RowsOf(_, _)
\* the rows of ids S as <<id, st>>, in id order
RowsOf(tk, S) ==
    IF S = {} THEN <<>>
    ELSE LET m == CHOOSE x \in S : \A y \in S : x <= y
         IN <<[id |-> m, st |-> tk[m].st]>> \o RowsOf(tk, S \ {m})

\* SELECT id, st FROM tokens WHERE is_active = 1
ActiveRows(tk) == RowsOf(tk, {i \in DOMAIN tk : tk[i].is_active})

\* SELECT id, st FROM tokens  (every row, whatever is_active)
AllRows(tk) == RowsOf(tk, DOMAIN tk)

RECURSIVE NextIndex(_, _)
\* "if not st: continue": the next snapshot entry that has a secret
NextIndex(snap, i) ==
    IF i > Len(snap) THEN i
    ELSE IF snap[i].st # 0 THEN i
    ELSE NextIndex(snap, i + 1)

\* a loop that ends when its cycle has failed
ExitOnFailure(r, kind) ==
    IF enabled /\ kind # "l_backoff"
    THEN [IdleLoop EXCEPT !.pc = kind]
    ELSE DoneLoop

\* while self.enabled / "if not self.enabled: break" before a sleep segment:
\* the loop goes to sleep while enabled and ends as soon as it is not
SleepOrExit(r, kind) ==
    IF enabled
    THEN [IdleLoop EXCEPT !.pc = kind]
    ELSE DoneLoop

\* the for loop over the snapshot goes on with entry r.i: an exchange is
\* issued for the next entry that has a secret, or the cycle is complete
LoopGoOn(l, r) ==
    LET j == NextIndex(r.snap, r.i) IN
    IF j > Len(r.snap)
    THEN /\ lp' = [lp EXCEPT ![l] = [IdleLoop EXCEPT !.pc = "l_close"]]
         /\ UNCHANGED nExch
    ELSE /\ CanExchange
         /\ nExch' = nExch + 1
         /\ lp' = [lp EXCEPT ![l] = [IdleLoop EXCEPT !.pc = "l_exch",
                                        !.snap = r.snap, !.i = j,
                                        !.at = nExch + 1]]

\* _run_scheduler starts: while self.enabled
LoopBegin(l) ==
    /\ lp[l].pc = "l_new"
    /\ ~lp[l].cancel
    /\ lp' = [lp EXCEPT ![l] = IF enabled
                                THEN [IdleLoop EXCEPT !.pc = "l_select"]
                                ELSE DoneLoop]
    /\ UNCHANGED <<tokens, stats, threshold, adminVars, poolVars, now, nExch, tmVars, enabled, task, hist>>

\* _update_tokens: the snapshot of active credentials, then the first entry
LoopSelect(l) ==
    /\ lp[l].pc = "l_select"
    /\ ~lp[l].cancel
    /\ LoopGoOn(l, [IdleLoop EXCEPT !.snap = ActiveRows(tokens), !.i = 1])
    /\ UNCHANGED <<tokens, stats, threshold, adminVars, poolVars, now, tmVars, enabled, task, hist>>

\* aiosqlite.connect or the SELECT raises: _run_scheduler's except Exception
LoopSelectFail(l) ==
    /\ lp[l].pc = "l_select"
    /\ ~lp[l].cancel
    /\ lp' = [lp EXCEPT ![l] = SleepOrExit(lp[l], "l_backoff")]
    /\ UNCHANGED <<tokens, stats, threshold, adminVars, poolVars, now, nExch, tmVars, enabled, task, hist>>

LoopExchangeOk(l, exp) ==
    /\ lp[l].pc = "l_exch"
    /\ ~lp[l].cancel
    /\ lp' = [lp EXCEPT ![l].pc = "l_write", ![l].exp = exp]
    /\ UNCHANGED <<tokens, stats, threshold, adminVars, poolVars, now, nExch, tmVars, enabled, task, hist>>

\* st_to_at raises: except Exception
LoopExchangeFail(l) ==
    /\ lp[l].pc = "l_exch"
    /\ ~lp[l].cancel
    /\ lp' = [lp EXCEPT ![l].pc = "l_disable"]
    /\ UNCHANGED <<tokens, stats, threshold, adminVars, poolVars, now, nExch, tmVars, enabled, task, hist>>

\* UPDATE tokens SET at, at_expires, last_used_at: executed in the
\* connection's open transaction, visible to others at the commit
LoopWrite(l) ==
    /\ lp[l].pc = "l_write"
    /\ ~lp[l].cancel
    /\ lp' = [lp EXCEPT ![l].pc = "l_credits"]
    /\ UNCHANGED <<tokens, stats, threshold, adminVars, poolVars, now, nExch, tmVars, enabled, task, hist>>

LoopCreditsOk(l, c) ==
    /\ lp[l].pc = "l_credits"
    /\ ~lp[l].cancel
    /\ lp' = [lp EXCEPT ![l].pc = "l_wcredits", ![l].credits = c]
    /\ UNCHANGED <<tokens, stats, threshold, adminVars, poolVars, now, nExch, tmVars, enabled, task, hist>>

\* get_credits raises: except: pass
LoopCreditsFail(l) ==
    /\ lp[l].pc = "l_credits"
    /\ ~lp[l].cancel
    /\ lp' = [lp EXCEPT ![l].pc = "l_commit"]
    /\ UNCHANGED <<tokens, stats, threshold, adminVars, poolVars, now, nExch, tmVars, enabled, task, hist>>

\* UPDATE tokens SET credits, in the same transaction
LoopWriteCredits(l) ==
    /\ lp[l].pc = "l_wcredits"
    /\ ~lp[l].cancel
    /\ lp' = [lp EXCEPT ![l].pc = "l_commit"]
    /\ UNCHANGED <<tokens, stats, threshold, adminVars, poolVars, now, nExch, tmVars, enabled, task, hist>>

\* what the transaction of a successful refresh writes
LoopFieldsActivating(r) ==
    IF r.credits = -1
    THEN [at |-> r.at, at_expires |-> r.exp, is_active |-> TRUE]
    ELSE [at |-> r.at, at_expires |-> r.exp, is_active |-> TRUE,
          credits |-> r.credits]

\* a transaction that keeps a stored access token newer than its own
LoopFieldsNewest(r) ==
    LET row == tokens[r.snap[r.i].id]
        at == IF row.at > r.at THEN row.at ELSE r.at
        exp == IF row.at > r.at THEN row.at_expires ELSE r.exp
    IN  IF r.credits = -1
        THEN [at |-> at, at_expires |-> exp]
        ELSE [at |-> at, at_expires |-> exp, credits |-> r.credits]

LoopFields(r) ==
    IF r.credits = -1
    THEN [at |-> r.at, at_expires |-> r.exp]
    ELSE [at |-> r.at, at_expires |-> r.exp, credits |-> r.credits]

\* db_conn.commit(), then the next entry of the snapshot
LoopCommit(l) ==
    /\ lp[l].pc = "l_commit"
    /\ ~lp[l].cancel
    /\ tokens' = DbUpdateToken(tokens, lp[l].snap[lp[l].i].id, LoopFields(lp[l]))
    /\ LoopGoOn(l, [lp[l] EXCEPT !.i = @ + 1])
    /\ UNCHANGED <<stats, threshold, adminVars, poolVars, now, tmVars, enabled, task, hist>>

\* a disable that also cleared the stored access token and its expiry
LoopDisableClears(l) ==
    /\ lp[l].pc = "l_disable"
    /\ ~lp[l].cancel
    /\ tokens' = DbUpdateToken(tokens, lp[l].snap[lp[l].i].id,
                               [is_active |-> FALSE, at |-> 0, at_expires |-> NoExpiry])
    /\ LoopGoOn(l, [lp[l] EXCEPT !.i = @ + 1])
    /\ UNCHANGED <<stats, threshold, adminVars, poolVars, now, tmVars, enabled, task, hist>>

\* UPDATE tokens SET is_active = 0 and its commit, then the next entry
LoopDisable(l) ==
    /\ lp[l].pc = "l_disable"
    /\ ~lp[l].cancel
    /\ tokens' = DbUpdateToken(tokens, lp[l].snap[lp[l].i].id, [is_active |-> FALSE])
    /\ LoopGoOn(l, [lp[l] EXCEPT !.i = @ + 1])
    /\ UNCHANGED <<stats, threshold, adminVars, poolVars, now, tmVars, enabled, task, hist>>

\* the UPDATE of at, at_expires raises: except Exception
LoopWriteFail(l) ==
    /\ lp[l].pc = "l_write"
    /\ ~lp[l].cancel
    /\ lp' = [lp EXCEPT ![l].pc = "l_disable"]
    /\ UNCHANGED <<tokens, stats, threshold, adminVars, poolVars, now, nExch, tmVars, enabled, task, hist>>

\* a failed disable that escaped to _run_scheduler and ended the cycle
LoopDisableAborts(l) ==
    /\ lp[l].pc = "l_disable"
    /\ ~lp[l].cancel
    /\ lp' = [lp EXCEPT ![l] = SleepOrExit(lp[l], "l_backoff")]
    /\ UNCHANGED <<tokens, stats, threshold, adminVars, poolVars, now, nExch, tmVars, enabled, task, hist>>

\* the UPDATE of is_active or its commit raises: the inner except Exception
\* prints and the for loop goes on with the next entry
LoopDisableFail(l) ==
    /\ lp[l].pc = "l_disable"
    /\ ~lp[l].cancel
    /\ LoopGoOn(l, [lp[l] EXCEPT !.i = @ + 1])
    /\ UNCHANGED <<tokens, stats, threshold, adminVars, poolVars, now, tmVars, enabled, task, hist>>

\* the connection is closed; the sleep between cycles begins
LoopClose(l) ==
    /\ lp[l].pc = "l_close"
    /\ ~lp[l].cancel
    /\ lp' = [lp EXCEPT ![l] = SleepOrExit(lp[l], "l_sleep")]
    /\ UNCHANGED <<tokens, stats, threshold, adminVars, poolVars, now, nExch, tmVars, enabled, task, hist>>

\* a sleep segment ends ("for _ in range(...)": "if not self.enabled: break",
\* asyncio.sleep).  The number of segments slept so far is not kept: after
\* any segment the for loop may be exhausted.  Either way "not self.enabled"
\* ends the loop, at the break and then at "while self.enabled".
SegmentEnds(l, kind) ==
    /\ lp[l].pc = kind
    /\ ~lp[l].cancel
    /\ IF ~enabled
       THEN lp' = [lp EXCEPT ![l] = DoneLoop]
       ELSE \/ UNCHANGED lp
            \/ lp' = [lp EXCEPT ![l] = [IdleLoop EXCEPT !.pc = "l_select"]]
    /\ hist' = [hist EXCEPT !.halted = IF enabled THEN @ ELSE @ \ {l}]
    /\ UNCHANGED <<tokens, stats, threshold, adminVars, poolVars, now, nExch, tmVars, enabled, task>>

LoopSleep(l) == SegmentEnds(l, "l_sleep")

LoopBackoff(l) == SegmentEnds(l, "l_backoff")

\* the awaits inside "try: ... except: pass" (lines 114-121): a bare except
\* also catches CancelledError
SwallowsCancelNowhere == {}

SwallowsCancel == {"l_credits", "l_wcredits"}

\* CancelledError is delivered at the await the loop is suspended at.  Inside
\* the bare except it is swallowed and the loop goes on to the commit;
\* anywhere else it ends the task.  A store operation that was under way
\* has either been carried out or not.
LoopCancelled(l) ==
    /\ Running(l)
    /\ lp[l].cancel
    /\ IF lp[l].pc \in SwallowsCancel
       THEN /\ \E kept \in {-1, lp[l].credits} :
                 lp' = [lp EXCEPT ![l].pc = "l_commit", ![l].cancel = FALSE,
                                  ![l].credits = kept]
            /\ UNCHANGED tokens
       ELSE /\ lp' = [lp EXCEPT ![l] = DoneLoop]
            /\ \/ UNCHANGED tokens
               \/ /\ lp[l].pc = "l_commit"
                  /\ tokens' = DbUpdateToken(tokens, lp[l].snap[lp[l].i].id,
                                             LoopFields(lp[l]))
               \/ /\ lp[l].pc = "l_disable"
                  /\ tokens' = DbUpdateToken(tokens, lp[l].snap[lp[l].i].id,
                                             [is_active |-> FALSE])
    /\ hist' = [hist EXCEPT !.halted = IF lp[l].pc \in SwallowsCancel
                                       THEN @ ELSE @ \ {l}]
    /\ UNCHANGED <<stats, threshold, adminVars, poolVars, now, nExch, tmVars, enabled, task>>

(***************************************************************************)
(* start() and stop()                                                      *)
(***************************************************************************)
CallStart(t) ==
    /\ pc[t] = "idle"
    /\ pc' = [pc EXCEPT ![t] = "st_run"]
    /\ loc' = [loc EXCEPT ![t] = Frame("start", 0)]
    /\ UNCHANGED <<tokens, stats, threshold, adminVars, poolVars, lock, now, nExch, schedVars, hist>>

\* "if self.enabled: return"
AlreadyRunningNever == FALSE

\* a start() that always finds the scheduler running
AlreadyRunningAlways == TRUE

AlreadyRunning == enabled

\* the body of start(), lines 20-25
StartScheduler ==
    /\ IF AlreadyRunning
       THEN UNCHANGED schedVars
       ELSE \E l \in LoopIds :
              /\ lp[l].pc = "none"
              /\ \A k \in LoopIds : k < l => lp[k].pc # "none"
              /\ enabled' = TRUE
              /\ task' = l
              /\ lp' = [lp EXCEPT ![l].pc = "l_new"]
    /\ hist' = [hist EXCEPT !.stopped = FALSE,
                            !.startSince = [u \in Tasks |-> TRUE],
                            !.lastStart = IF lp' = lp THEN "noop"
                                         ELSE IF hist.stopped THEN "resumed"
                                         ELSE "created"]

\* start() has no await: the test, enabled = True and create_task are one step
StartBody(t) ==
    /\ pc[t] = "st_run"
    /\ StartScheduler
    /\ pc' = [pc EXCEPT ![t] = "idle"]
    /\ loc' = [loc EXCEPT ![t] = IdleLoc]
    /\ UNCHANGED <<tokens, stats, threshold, adminVars, poolVars, lock, now, nExch>>

CallStop(t) ==
    /\ pc[t] = "idle"
    /\ pc' = [pc EXCEPT ![t] = "sp_run"]
    /\ loc' = [loc EXCEPT ![t] = Frame("stop", 0)]
    /\ UNCHANGED <<tokens, stats, threshold, adminVars, poolVars, lock, now, nExch, schedVars, hist>>

\* the loop tasks suspended in asyncio.sleep
Sleeping == {l \in LoopIds : lp[l].pc \in {"l_sleep", "l_backoff"}}

\* stop() returns
StopReturns(t, startedSince) ==
    /\ pc' = [pc EXCEPT ![t] = "idle"]
    /\ loc' = [loc EXCEPT ![t] = IdleLoc]
    /\ hist' = [hist EXCEPT !.stopped = IF startedSince THEN @ ELSE TRUE,
                            !.startSince[t] = FALSE,
                            !.lastStart = IF pc[t] = "sp_run" THEN "none" ELSE @,
                            !.halted = IF pc[t] = "sp_run" /\ enabled
                                       THEN @ \cup Sleeping ELSE @]

\* stop() up to "await self.task": nothing to do when not enabled; otherwise
\* enabled = False, the task is cancelled and awaited.  Awaiting a task
\* that is already done does not suspend.
StopBody(t) ==
    /\ pc[t] = "sp_run"
    /\ IF ~enabled
       THEN /\ StopReturns(t, FALSE)
            /\ UNCHANGED schedVars
       ELSE /\ enabled' = FALSE
            /\ IF task = 0
               THEN /\ StopReturns(t, FALSE)
                    /\ UNCHANGED <<task, lp>>
               ELSE IF Running(task)
                    THEN /\ lp' = [lp EXCEPT ![task].cancel = TRUE]
                         /\ pc' = [pc EXCEPT ![t] = "sp_await"]
                         /\ loc' = [loc EXCEPT ![t].id = task]
                         /\ hist' = [hist EXCEPT !.startSince[t] = FALSE,
                                                 !.lastStart = "none",
                                                 !.halted = @ \cup Sleeping]
                         /\ UNCHANGED task
                    ELSE /\ task' = 0
                         /\ StopReturns(t, FALSE)
                         /\ UNCHANGED lp
    /\ UNCHANGED <<tokens, stats, threshold, adminVars, poolVars, lock, now, nExch>>

\* the awaited task has finished: self.task = None, return
StopResume(t) ==
    /\ pc[t] = "sp_await"
    /\ lp[loc[t].id].pc = "done"
    /\ task' = 0
    /\ StopReturns(t, hist.startSince[t])
    /\ UNCHANGED <<tokens, stats, threshold, adminVars, poolVars, lock, now, nExch, enabled, lp>>

\* a finished loop task that neither self.task nor an awaiting stop() refers
\* to is dropped: its place is free for the task of a later start()
LoopForgotten(l) ==
    /\ lp[l].pc = "done"
    /\ task # l
    /\ \A t \in Tasks : ~(pc[t] = "sp_await" /\ loc[t].id = l)
    /\ lp' = [lp EXCEPT ![l] = IdleLoop]
    /\ UNCHANGED <<tokens, stats, threshold, adminVars, poolVars, now, nExch, tmVars, enabled, task, hist>>

(***************************************************************************)
(* admin.py: the token refresh configuration endpoints                     *)
(***************************************************************************)
AppInstance == 1              \* an app instance passed to set_dependencies

\* app.state.token_refresh_scheduler.  The scheduler the endpoints create
\* when app.state has none is TokenRefreshScheduler(db.db_path): enabled is
\* False and task is None, the state the scheduler variables start in.  With
\* app = None the read of app.state raises AttributeError.
HasAppState == app # NoApp

\* POST /api/token-refresh/enabled: enabled = request.get("enabled", True),
\* then db.update_token_refresh_config(enabled) is awaited
CallUpdateRefreshEnabled(t, e) ==
    /\ pc[t] = "idle"
    /\ pc' = [pc EXCEPT ![t] = "te_write"]
    /\ loc' = [loc EXCEPT ![t] = [Frame("update_token_refresh_enabled", 0)
                                    EXCEPT !.args = [enabled |-> e]]]
    /\ UNCHANGED <<tokens, stats, threshold, adminVars, poolVars, lock, now, nExch, schedVars, hist>>

\* where the endpoint goes on when the store write has returned: the read of
\* app.state, then scheduler.start() or scheduler.stop()
RefreshEnabledResume(t) ==
    IF ~HasAppState THEN "te_raise"
    ELSE IF loc[t].args.enabled THEN "st_run" ELSE "sp_run"

\* UPDATE token_refresh_config SET at_auto_refresh_enabled = ?
RefreshEnabledWrite(t) ==
    /\ pc[t] = "te_write"
    /\ at_auto_refresh_enabled' = loc[t].args.enabled
    /\ pc' = [pc EXCEPT ![t] = RefreshEnabledResume(t)]
    /\ UNCHANGED <<tokens, stats, threshold, app, active_admin_tokens, poolVars,
                   lock, now, nExch, loc, schedVars, hist>>

\* "hasattr(app.state, ...)" with app = None: AttributeError, answered as 500
RefreshEnabledRaise(t) ==
    /\ pc[t] = "te_raise"
    /\ pc' = [pc EXCEPT ![t] = "done"]
    /\ loc' = [loc EXCEPT ![t].ret = FALSE, ![t].err = "AttributeError"]
    /\ UNCHANGED <<tokens, stats, threshold, adminVars, poolVars, lock, now, nExch, schedVars, hist>>

\* GET /api/token-refresh/config: db.get_token_refresh_config() is awaited
CallGetRefreshConfig(t) ==
    /\ pc[t] = "idle"
    /\ pc' = [pc EXCEPT ![t] = "tc_read"]
    /\ loc' = [loc EXCEPT ![t] = Frame("get_token_refresh_config", 0)]
    /\ UNCHANGED <<tokens, stats, threshold, adminVars, poolVars, lock, now, nExch, schedVars, hist>>

\* SELECT * FROM token_refresh_config WHERE id = 1
RefreshConfigRead(t) ==
    /\ pc[t] = "tc_read"
    /\ pc' = [pc EXCEPT ![t] = "tc_answer"]
    /\ loc' = [loc EXCEPT ![t].args = [enabled |-> at_auto_refresh_enabled]]
    /\ UNCHANGED <<tokens, stats, threshold, adminVars, poolVars, lock, now, nExch, schedVars, hist>>

\* lines 711-719: scheduler.enabled, and with a task "not scheduler.task.done()
\* and scheduler.enabled"; False without an app
SchedulerRunning ==
    /\ HasAppState
    /\ enabled
    /\ task # 0 => Running(task)

\* an answer that reports running without calling scheduler.start()
RefreshConfigAnswerNoStart(t) ==
    /\ pc[t] = "tc_answer"
    /\ IF loc[t].args.enabled /\ ~SchedulerRunning
       THEN IF ~HasAppState
            THEN loc' = [loc EXCEPT ![t].ret = FALSE,
                                    ![t].err = "AttributeError"]
            ELSE loc' = [loc EXCEPT ![t].ret = TRUE]
       ELSE loc' = [loc EXCEPT ![t].ret = SchedulerRunning]
    /\ pc' = [pc EXCEPT ![t] = "done"]
    /\ UNCHANGED <<tokens, stats, threshold, adminVars, poolVars, lock, now, nExch, schedVars, hist>>

\* the answer: "if at_auto_refresh_enabled and not scheduler_running" the
\* scheduler is started and running is reported; start() has no await
RefreshConfigAnswer(t) ==
    /\ pc[t] = "tc_answer"
    /\ IF loc[t].args.enabled /\ ~SchedulerRunning
       THEN IF ~HasAppState
            THEN /\ loc' = [loc EXCEPT ![t].ret = FALSE,
                                       ![t].err = "AttributeError"]
                 /\ UNCHANGED <<schedVars, hist>>
            ELSE /\ StartScheduler
                 /\ loc' = [loc EXCEPT ![t].ret = TRUE]
       ELSE /\ loc' = [loc EXCEPT ![t].ret = SchedulerRunning]
            /\ UNCHANGED <<schedVars, hist>>
    /\ pc' = [pc EXCEPT ![t] = "done"]
    /\ UNCHANGED <<tokens, stats, threshold, adminVars, poolVars, lock, now, nExch>>

(***************************************************************************)
(* admin.py: operator sessions                                             *)
(***************************************************************************)
\* session tokens: f"admin-{secrets.token_urlsafe(32)}", the k-th one issued
\* is k; the bearer tokens a request may present are these, issued or not
SessionTokens == 1..MaxSessions

\* verify_admin_token, lines 96-107, for "Bearer <token>": it has no await
\* and runs in the step that enters the endpoint
VerifyAdminToken(token) == token \in active_admin_tokens

\* HTTPException(status_code=...)
RaiseHttp(t, status) ==
    /\ pc' = [pc EXCEPT ![t] = "done"]
    /\ loc' = [loc EXCEPT ![t].ret = FALSE, ![t].err = status]

\* POST /api/admin/login: db.get_admin_config() is awaited
CallLogin(t) ==
    /\ pc[t] = "idle"
    /\ Cardinality(hist.issued) < MaxSessions
    /\ pc' = [pc EXCEPT ![t] = "lg_config"]
    /\ loc' = [loc EXCEPT ![t] = Frame("admin_login", 0)]
    /\ UNCHANGED <<tokens, stats, threshold, adminVars, poolVars, lock, now, nExch, schedVars, hist>>

\* a token not handed out before
NewSessionToken == Cardinality(hist.issued) + 1

\* AuthManager.verify_admin(username, password) answers ok; a session token
\* is generated and added to active_admin_tokens
LoginVerify(t, ok) ==
    /\ pc[t] = "lg_config"
    /\ IF ok
       THEN /\ NewSessionToken \in SessionTokens
            /\ active_admin_tokens' = active_admin_tokens \cup {NewSessionToken}
            /\ hist' = [hist EXCEPT
                   !.issued = @ \cup {NewSessionToken},
                   !.interleaved =
                       IF \E u \in Tasks : loc[u].op = "change_password"
                                              /\ pc[u] # "done"
                       THEN @ \cup {NewSessionToken} ELSE @]
            /\ pc' = [pc EXCEPT ![t] = "done"]
            /\ loc' = [loc EXCEPT ![t].ret = TRUE, ![t].id = NewSessionToken]
       ELSE /\ RaiseHttp(t, "401")
            /\ UNCHANGED <<active_admin_tokens, hist>>
    /\ UNCHANGED <<tokens, stats, threshold, app, at_auto_refresh_enabled, poolVars,
                   lock, now, nExch, schedVars>>

\* POST /api/admin/logout with bearer token: verify_admin_token, then
\* active_admin_tokens.discard(token)
Logout(t, token) ==
    /\ pc[t] = "idle"
    /\ IF VerifyAdminToken(token)
       THEN /\ active_admin_tokens' = active_admin_tokens \ {token}
            /\ hist' = [hist EXCEPT !.revoked = @ \cup {token}]
            /\ pc' = [pc EXCEPT ![t] = "done"]
            /\ loc' = [loc EXCEPT ![t] = [Frame("admin_logout", token)
                                            EXCEPT !.ret = TRUE]]
       ELSE /\ pc' = [pc EXCEPT ![t] = "done"]
            /\ loc' = [loc EXCEPT ![t] = [Frame("admin_logout", token)
                                            EXCEPT !.err = "401"]]
            /\ UNCHANGED <<active_admin_tokens, hist>>
    /\ UNCHANGED <<tokens, stats, threshold, app, at_auto_refresh_enabled, poolVars,
                   lock, now, nExch, schedVars>>

\* POST /api/admin/change-password with bearer token: verify_admin_token,
\* then db.get_admin_config() is awaited
CallChangePassword(t, token) ==
    /\ pc[t] = "idle"
    /\ IF VerifyAdminToken(token)
       THEN /\ pc' = [pc EXCEPT ![t] = "cp_config"]
            /\ loc' = [loc EXCEPT ![t] = Frame("change_password", token)]
       ELSE /\ pc' = [pc EXCEPT ![t] = "done"]
            /\ loc' = [loc EXCEPT ![t] = [Frame("change_password", token)
                                            EXCEPT !.err = "401"]]
    /\ UNCHANGED <<tokens, stats, threshold, adminVars, poolVars, lock, now, nExch, schedVars, hist>>

\* AuthManager.verify_admin(admin_config.username, old_password) answers ok:
\* a wrong old password is answered 400; otherwise
\* db.update_admin_config(password=...) is awaited
ChangeVerify(t, ok) ==
    /\ pc[t] = "cp_config"
    /\ IF ok
       THEN /\ pc' = [pc EXCEPT ![t] = "cp_write"]
            /\ UNCHANGED loc
       ELSE RaiseHttp(t, "400")
    /\ UNCHANGED <<tokens, stats, threshold, adminVars, poolVars, lock, now, nExch, schedVars, hist>>

\* the password is stored; db.reload_config_to_memory() is awaited
ChangeWrite(t) ==
    /\ pc[t] = "cp_write"
    /\ pc' = [pc EXCEPT ![t] = "cp_reload"]
    /\ UNCHANGED <<tokens, stats, threshold, adminVars, poolVars, lock, now, nExch, loc, schedVars, hist>>

\* db.update_admin_config or db.reload_config_to_memory raises
ChangeFail(t) ==
    /\ pc[t] \in {"cp_write", "cp_reload"}
    /\ RaiseHttp(t, "500")
    /\ UNCHANGED <<tokens, stats, threshold, adminVars, poolVars, lock, now, nExch, schedVars, hist>>

\* a change_password that invalidates only the session that asked for it
ChangeReloadOwnSession(t) ==
    /\ pc[t] = "cp_reload"
    /\ active_admin_tokens' = active_admin_tokens \ {loc[t].id}
    /\ hist' = [hist EXCEPT !.revoked = hist.issued]
    /\ pc' = [pc EXCEPT ![t] = "done"]
    /\ loc' = [loc EXCEPT ![t].ret = TRUE]
    /\ UNCHANGED <<tokens, stats, threshold, app, at_auto_refresh_enabled, poolVars,
                   lock, now, nExch, schedVars>>

\* the reload has returned: active_admin_tokens.clear(), then the answer
ChangeReload(t) ==
    /\ pc[t] = "cp_reload"
    /\ active_admin_tokens' = {}
    /\ hist' = [hist EXCEPT !.revoked = hist.issued]
    /\ pc' = [pc EXCEPT ![t] = "done"]
    /\ loc' = [loc EXCEPT ![t].ret = TRUE]
    /\ UNCHANGED <<tokens, stats, threshold, app, at_auto_refresh_enabled, poolVars,
                   lock, now, nExch, schedVars>>

(***************************************************************************)
(* Specifications                                                          *)
(***************************************************************************)
\* set_dependencies(tm, pm, database, app_instance=None): "app = app_instance"
SetDependencies(app_instance) == app = app_instance

\* the process before set_dependencies has run
InitProcess ==
    /\ stats = [i \in TokenIds |-> StatsRow(0, 0)]
    /\ lock = NoTask
    /\ now = 0
    /\ nExch = Cardinality(TokenIds)
    /\ pc = [t \in Tasks |-> "idle"]
    /\ loc = [t \in Tasks |-> IdleLoc]
    /\ hist = HistInit
    /\ at_auto_refresh_enabled = TRUE
    /\ active_admin_tokens = {}

\* main.py line 110: admin.set_dependencies(token_manager, proxy_manager, db)
InitCommon ==
    /\ InitProcess
    /\ SetDependencies(NoApp)

\* ConcurrencyManager.initialize(tokens): a zero counter for every stored
\* credential and capability
Initialize(tk) == [i \in DOMAIN tk |-> [image |-> 0, video |-> 0]]

\* lifespan: the ledger is seeded from get_all_tokens(); every stored
\* credential has the project row add_token wrote for it
InitLifespan ==
    /\ projects = {[project_id |-> tokens[i].current_project_id, token_id |-> i] :
                      i \in DOMAIN tokens}
    /\ ledger = Initialize(tokens)
    /\ nextId = Cardinality(TokenIds) + 1

InitSchedulerOff ==
    /\ enabled = FALSE
    /\ task = 0
    /\ lp = [l \in LoopIds |-> IdleLoop]

\* record_error and record_success calls on a pool of active credentials
InitErr ==
    /\ InitCommon
    /\ InitSchedulerOff
    /\ tokens = [i \in TokenIds |-> TokenRow(i, i, 3601, TRUE)]
    /\ threshold \in 1..MaxThreshold
    /\ InitLifespan

NextErr ==
    \E t \in Tasks :
        \/ \E id \in TokenIds : CallRecordError(t, id)
        \/ ErrIncrement(t)
        \/ ErrReadStats(t)
        \/ ErrCompare(t)
        \/ ErrDisable(t)
        \/ \E id \in TokenIds : CallRecordSuccess(t, id)
        \/ SuccessReset(t)

SpecErr == InitErr /\ [][NextErr]_vars

\* start() and stop() calls and the loop tasks they create
InitSched ==
    /\ InitCommon
    /\ InitSchedulerOff
    /\ tokens = [i \in {1} |-> TokenRow(i, i, 3601, TRUE)]
    /\ threshold = 1
    /\ InitLifespan

\* the expiries the scheduler's exchanges carry
LoopExpiries == {now + 3601}

LoopStep(l) ==
    \/ LoopBegin(l)
    \/ LoopSelect(l)
    \/ LoopSelectFail(l)
    \/ \E exp \in LoopExpiries : LoopExchangeOk(l, exp)
    \/ LoopExchangeFail(l)
    \/ LoopWrite(l)
    \/ \E c \in CreditValues : LoopCreditsOk(l, c)
    \/ LoopCreditsFail(l)
    \/ LoopWriteCredits(l)
    \/ LoopCommit(l)
    \/ LoopDisable(l)
    \/ LoopClose(l)
    \/ LoopSleep(l)
    \/ LoopBackoff(l)

NextSched ==
    \/ \E l \in LoopIds : LoopStep(l)
    \/ \E l \in LoopIds : LoopCancelled(l)
    \/ \E t \in Tasks :
        \/ CallStart(t)
        \/ StartBody(t)
        \/ CallStop(t)
        \/ StopBody(t)
        \/ StopResume(t)

SpecSched == InitSched /\ [][NextSched]_vars

\* the steps of is_at_valid and _refresh_at, the exchange answering with an
\* expiry of E
RefreshStep(t, E) ==
    \/ IsAtValidRead(t)
    \/ RefreshAcquire(t)
    \/ RefreshRead(t)
    \/ \E exp \in E : RefreshExchangeOk(t, exp)
    \/ RefreshExchangeFail(t)
    \/ RefreshWrite(t)
    \/ \E c \in CreditValues : RefreshCreditsOk(t, c)
    \/ RefreshCreditsFail(t)
    \/ RefreshWriteCredits(t)
    \/ RefreshDisable(t)
    \/ Finish(t)

\* the scheduler loop was started before the first step
InitSchedulerOn ==
    /\ enabled = TRUE
    /\ task = 1
    /\ lp = [l \in LoopIds |-> IF l = 1 THEN [IdleLoop EXCEPT !.pc = "l_new"]
                                      ELSE IdleLoop]

\* the refresh paths on a pool of two credentials, the first of them due for
\* a refresh: request handlers calling is_at_valid on the credential that is
\* due, the manual refresh of either, an operator disabling the second
\* credential, and the scheduler loop
InitPool ==
    /\ InitCommon
    /\ InitSchedulerOn
    /\ tokens = [i \in TokenIds |->
                    TokenRow(i, i, IF i = 1 THEN 3599 ELSE 3601, TRUE)]
    /\ threshold = 1
    /\ InitLifespan

Next ==
    \/ \E t \in Tasks :
        \/ \E id \in TokenIds : CallRefreshAt(t, id)
        \/ \E id \in {1} : CallIsAtValid(t, id)
        \/ RefreshStep(t, {now + 3601})
        \/ \E id \in {2} : CallDisable(t, id)
        \/ DisableWrite(t)
    \/ \E l \in LoopIds : LoopStep(l)

Spec == InitPool /\ [][Next]_vars

\* is_at_valid around the one-hour lead: a pool whose access tokens are
\* absent or present, with no expiry or one near the lead time, a clock that
\* advances, and exchanges answering with or without an expiry
Expiries == {NoExpiry} \cup {now + d : d \in ExpiryOffsets}

InitValid ==
    /\ InitCommon
    /\ InitSchedulerOff
    /\ \E a \in [TokenIds -> BOOLEAN] :
       \E e \in [TokenIds -> {NoExpiry} \cup ExpiryOffsets] :
           tokens = [i \in TokenIds |->
                        TokenRow(i, IF a[i] THEN i ELSE 0, e[i], TRUE)]
    /\ threshold = 1
    /\ InitLifespan

NextValid ==
    \/ \E t \in Tasks :
        \/ \E id \in TokenIds : CallIsAtValid(t, id)
        \/ RefreshStep(t, Expiries)
    \/ Tick

SpecValid == InitValid /\ [][NextValid]_vars

\* every operation that writes the tokens table, on one quarantined
\* credential, with the scheduler loop running
UpdateRequests == {[st |-> 1], [st |-> 1, image_enabled |-> FALSE]}

ImportData == {[session_token |-> 1, access_token |-> 9]}

InitActive ==
    /\ InitCommon
    /\ InitSchedulerOn
    /\ tokens = [i \in {1} |-> TokenRow(i, i, 3601, FALSE)]
    /\ threshold = 1
    /\ InitLifespan

\* the endpoints are driven one call at a time, beside the scheduler loop
Operator == {"t1"}

NextActive ==
    \/ \E t \in Operator :
        \/ \E id \in DOMAIN tokens :
            \/ CallRefreshAt(t, id)
            \/ CallRefreshCredits(t, id)
            \/ CallEnable(t, id)
            \/ CallRecordError(t, id)
            \/ CallRecordSuccess(t, id)
            \/ \E req \in UpdateRequests : CallUpdateToken(t, id, req)
        \/ \E data \in ImportData : CallImport(t, data)
        \/ RefreshStep(t, {now + 3601})
        \/ CreditsRead(t)
        \/ CreditsReread(t)
        \/ \E c \in CreditValues : CreditsFetchOk(t, c)
        \/ CreditsFetchFail(t)
        \/ CreditsWrite(t)
        \/ EnableWrite(t)
        \/ EnableReset(t)
        \/ ErrIncrement(t)
        \/ ErrReadStats(t)
        \/ ErrCompare(t)
        \/ ErrDisable(t)
        \/ SuccessReset(t)
        \/ \E exp \in {now + 3601} : UpdateExchangeOk(t, exp)
        \/ UpdateExchangeFail(t)
        \/ UpdateWrite(t)
        \/ ImportLookup(t)
        \/ ImportUpdate(t)
    \/ \E l \in LoopIds : LoopStep(l)

SpecActive == InitActive /\ [][NextActive]_vars

(***************************************************************************)
(* Claims                                                                  *)
(***************************************************************************)

\* C5 as stated: with no record_success so far, the credential is active
\* until threshold-many record_error calls on it have returned, and inactive
\* from then on.
C5_AsStated ==
    \A id \in TokenIds :
        ~hist.succ[id] =>
            /\ hist.errDone[id] < threshold => tokens[id].is_active
            /\ hist.errDone[id] >= threshold => ~tokens[id].is_active

\* C5 (amended): with no record_success so far, the credential is active
\* while fewer than threshold-many record_error calls have incremented its
\* counter, and inactive once threshold-many record_error calls have
\* returned; between the two a call that returns early may already have
\* disabled it.
C5_ErrorStreakQuarantines ==
    \A id \in TokenIds :
        ~hist.succ[id] =>
            /\ stats[id].error_count < threshold => tokens[id].is_active
            /\ hist.errDone[id] >= threshold => ~tokens[id].is_active

C5_Witness ==
    \E id \in TokenIds :
        /\ ~hist.succ[id]
        /\ threshold = MaxThreshold
        /\ hist.errDone[id] = threshold
        /\ ~tokens[id].is_active

Created == {l \in LoopIds : lp[l].pc # "none"}

\* C9 as stated: once a stop() call has returned and no start() call has
\* begun since that stop() call began, the loop issues no further exchange
\* and writes no credential.  (In this specification only the scheduler
\* loop issues exchanges and writes the tokens table.)
C9_NoMutationAfterStop ==
    [][hist.stopped => (nExch' = nExch /\ tokens' = tokens)]_vars

\* C10: a start() call that finds the scheduler enabled changes neither
\* enabled nor task nor any loop task; one that finds it not enabled sets
\* enabled, creates exactly one loop task and stores it in task; and enabled
\* becomes false only in a stop() call, so that of two start() calls with no
\* stop() between them only the first creates a task.
C10_StartIdempotent ==
    [][/\ \A t \in Tasks :
            (pc[t] = "st_run" /\ pc'[t] = "idle") =>
                IF enabled
                THEN /\ enabled' = enabled
                     /\ task' = task
                     /\ lp' = lp
                ELSE /\ enabled'
                     /\ Cardinality({l \in LoopIds : lp'[l].pc # "none"})
                            = Cardinality(Created) + 1
                     /\ task' \in LoopIds \ Created
                     /\ lp'[task'].pc = "l_new"
       /\ (enabled /\ ~enabled') => \E t \in Tasks : pc[t] = "sp_run"
      ]_vars

C10_Witness ==
    /\ hist.lastStart = "noop"
    /\ enabled
    /\ Cardinality(Created) = 1
    /\ task = 1


\* one refresh cycle after another over two active credentials, with store
\* statements that can fail, while an operator disables credentials
LoopFaultStep(l) ==
    \/ LoopWriteFail(l)
    \/ LoopDisableFail(l)

InitCycle ==
    /\ InitCommon
    /\ InitSchedulerOn
    /\ tokens = [i \in TokenIds |-> TokenRow(i, i, 3601, TRUE)]
    /\ threshold = 1
    /\ InitLifespan

NextCycle ==
    \/ \E l \in LoopIds : LoopStep(l)
    \/ \E l \in LoopIds : LoopFaultStep(l)
    \/ \E t \in Operator :
        \/ \E id \in TokenIds : CallDisable(t, id)
        \/ DisableWrite(t)

SpecCycle == InitCycle /\ [][NextCycle]_vars

\* adding, importing and deleting credentials concurrently
AddRequests == {[st |-> 1], [st |-> 3], [st |-> 3, project_id |-> 7]}

ImportNew == {[session_token |-> 3]}

\* ids create_project answers with
ProjectIds == {8}

AddStep(t) ==
    \/ AddCheck(t)
    \/ \E exp \in {now + 3601} : AddExchangeOk(t, exp)
    \/ AddExchangeFail(t)
    \/ \E c \in CreditValues : AddCreditsOk(t, c)
    \/ AddCreditsFail(t)
    \/ \E p \in ProjectIds : AddProjectOk(t, p)
    \/ AddProjectFail(t)
    \/ AddInsert(t)
    \/ AddInsertProject(t)

InitAdd ==
    /\ InitCommon
    /\ InitSchedulerOff
    /\ tokens = [i \in TokenIds |-> TokenRow(i, i, 3601, TRUE)]
    /\ threshold = 1
    /\ InitLifespan

NextAdd ==
    \/ \E t \in Tasks :
        \/ \E req \in AddRequests : CallAddToken(t, req)
        \/ AddStep(t)
        \/ Finish(t)
    \/ \E t \in Operator :
        \/ \E data \in ImportNew : CallImport(t, data)
        \/ ImportLookup(t)
        \/ ImportUpdate(t)
        \/ \E id \in DOMAIN tokens : CallDelete(t, id)
        \/ DeleteWrite(t)

SpecAdd == InitAdd /\ [][NextAdd]_vars

\* tryAcquire and release storms on a pool whose credentials have caps of
\* zero, one, two and unlimited
InitLedger ==
    /\ InitCommon
    /\ InitSchedulerOff
    /\ tokens = [i \in TokenIds |->
                    [TokenRow(i, i, 3601, TRUE) EXCEPT
                        !.image_concurrency = i - 1,
                        !.video_concurrency = IF i = 1 THEN -1 ELSE 2]]
    /\ threshold = 1
    /\ InitLifespan

NextLedger ==
    \E t \in Tasks :
        \/ \E id \in DOMAIN ledger, c \in Capabilities :
            \/ CallLedger(t, "try_acquire", id, c)
            \/ CallLedger(t, "release", id, c)
        \/ TryAcquire(t)
        \/ Release(t)
        \/ Finish(t)

SpecLedger == InitLedger /\ [][NextLedger]_vars

\* selections beside reservations, releases and an operator's disable, on a
\* pool whose first credential is due for a refresh and serves images only
InitBalance ==
    /\ InitCommon
    /\ InitSchedulerOff
    /\ tokens = [i \in TokenIds |->
                    [TokenRow(i, i, IF i = 1 THEN 3599 ELSE 3601, TRUE) EXCEPT
                        !.video_enabled = (i # 1),
                        !.image_concurrency = 1,
                        !.video_concurrency = 2]]
    /\ threshold = 1
    /\ InitLifespan

\* the task whose selections are followed
Caller == {"t2"}

NextBalance ==
    \/ \E t \in Caller :
        \/ \E c \in Capabilities : CallSelect(t, c)
        \/ LbList(t)
        \/ RefreshStep(t, {now + 3601})
    \/ \E t \in Operator :
        \/ \E id \in DOMAIN ledger, c \in Capabilities :
            \/ CallLedger(t, "try_acquire", id, c)
            \/ CallLedger(t, "release", id, c)
        \/ TryAcquire(t)
        \/ Release(t)
        \/ \E id \in DOMAIN tokens : CallDisable(t, id)
        \/ DisableWrite(t)

SpecBalance == InitBalance /\ [][NextBalance]_vars

\* enable_token beside record_error, on a pool whose first credential was
\* quarantined by an error streak
InitEnable ==
    /\ InitCommon
    /\ InitSchedulerOff
    /\ tokens = [i \in TokenIds |-> TokenRow(i, i, 3601, i # 1)]
    /\ threshold = 1
    /\ InitLifespan

NextEnable ==
    \E t \in Tasks :
        \/ \E id \in TokenIds : CallEnable(t, id)
        \/ EnableWrite(t)
        \/ EnableReset(t)
        \/ \E id \in TokenIds : CallRecordError(t, id)
        \/ ErrIncrement(t)
        \/ ErrReadStats(t)
        \/ ErrCompare(t)
        \/ ErrDisable(t)

SpecEnable == InitEnable /\ [][NextEnable]_vars

\* ensure_project_exists calls on a pool whose first credential has lost its
\* binding (an update stored an empty project id) and whose second is bound
InitProject ==
    /\ InitCommon
    /\ InitSchedulerOff
    /\ tokens = [i \in TokenIds |->
                    IF i = 1
                    THEN [TokenRow(i, i, 3601, TRUE) EXCEPT
                             !.current_project_id = 0,
                             !.current_project_name = 0]
                    ELSE TokenRow(i, i, 3601, TRUE)]
    /\ threshold = 1
    /\ projects = {[project_id |-> i, token_id |-> i] : i \in TokenIds}
    /\ ledger = Initialize(tokens)
    /\ nextId = Cardinality(TokenIds) + 1

NextProject ==
    \E t \in Tasks :
        \/ \E id \in TokenIds \cup {nextId} : CallEnsureProject(t, id)
        \/ EnsureRead(t)
        \/ \E p \in NewProjects : EnsureCreateOk(t, p)
        \/ EnsureCreateFail(t)
        \/ EnsureWrite(t)
        \/ EnsureInsertProject(t)
        \/ Finish(t)

SpecProject == InitProject /\ [][NextProject]_vars

\* start() and stop() calls without end: the places of finished loop tasks
\* are used again
NextRestart ==
    \/ NextSched
    \/ \E l \in LoopIds : LoopForgotten(l)

SpecRestart == InitSched /\ [][NextRestart]_vars

\* record_error and record_success calls of one request handler while an
\* operator changes error_ban_threshold; the process starts with the
\* largest threshold
InitThreshold ==
    /\ InitCommon
    /\ InitSchedulerOff
    /\ tokens = [i \in TokenIds |-> TokenRow(i, i, 3601, TRUE)]
    /\ threshold = MaxThreshold
    /\ InitLifespan

NextThreshold ==
    \/ \E t \in Caller :
        \/ \E id \in TokenIds : CallRecordError(t, id)
        \/ ErrIncrement(t)
        \/ ErrReadStats(t)
        \/ ErrCompare(t)
        \/ ErrDisable(t)
        \/ \E id \in TokenIds : CallRecordSuccess(t, id)
        \/ SuccessReset(t)
    \/ \E t \in Operator :
        \/ \E v \in ThresholdValues : CallUpdateAdminConfig(t, v)
        \/ AdminConfigWrite(t)

SpecThreshold == InitThreshold /\ [][NextThreshold]_vars


\* concurrent _refresh_at calls, for stored credentials and for an id that
\* is not stored, with store operations that can fail.  A call is started
\* only while an exchange is left for it and for every call that has not
\* issued its own yet.
Waiting == {t \in Tasks : pc[t] \in {"r_lock", "r_read"}}

InitLock ==
    /\ InitCommon
    /\ InitSchedulerOff
    /\ tokens = [i \in TokenIds |-> TokenRow(i, i, 3601, TRUE)]
    /\ threshold = 1
    /\ InitLifespan

\* the steps of a call that holds the lock
LockedStep(t) ==
    \/ RefreshRead(t)
    \/ RefreshReadFail(t)
    \/ \E exp \in {NoExpiry, now + 3601} : RefreshExchangeOk(t, exp)
    \/ RefreshExchangeFail(t)
    \/ RefreshWrite(t)
    \/ RefreshWriteFail(t)
    \/ \E c \in CreditValues : RefreshCreditsOk(t, c)
    \/ RefreshCreditsFail(t)
    \/ RefreshWriteCredits(t)
    \/ RefreshDisable(t)
    \/ RefreshDisableFail(t)

NextLock ==
    \E t \in Tasks :
        \/ \E id \in TokenIds \cup {nextId} :
              /\ nExch + Cardinality(Waiting) < Cardinality(TokenIds) + MaxExch
              /\ CallRefreshAt(t, id)
        \/ RefreshAcquire(t)
        \/ LockedStep(t)
        \/ Finish(t)

SpecLock == InitLock /\ [][NextLock]_vars

\* every external call returns or fails (weak fairness of the steps under
\* the lock), and asyncio.Lock wakes its waiters in the order they came, so
\* a waiter is not passed over for ever (strong fairness of the acquire)
SpecLockFair ==
    /\ SpecLock
    /\ \A t \in Tasks : WF_vars(LockedStep(t)) /\ SF_vars(RefreshAcquire(t))


\* the awaits of _refresh_at between taking the lock and releasing it
InRefresh == {"r_read", "r_exch", "r_write", "r_credits", "r_wcredits", "r_disable"}



\* C1 as stated: over _refresh_at and the scheduler loop together, at most
\* one st_to_at exchange is in flight at any instant.
C1_AsStated ==
    Cardinality({t \in Tasks : pc[t] = "r_exch"})
        + Cardinality({l \in LoopIds : lp[l].pc = "l_exch"}) <= 1

\* C1 (amended): over all calls of _refresh_at (from is_at_valid and from the
\* manual refresh endpoint) at most one st_to_at exchange is in flight at
\* any instant; an exchange of the scheduler loop is not counted.
C1_RefreshAtExchangesSerialized ==
    Cardinality({t \in Tasks : pc[t] = "r_exch"}) <= 1

\* one exchange of _refresh_at in flight, the other _refresh_at call waiting
\* for the lock, and an exchange of the scheduler loop in flight beside it
C1_Witness ==
    \E t, u \in Tasks, l \in LoopIds :
        /\ pc[t] = "r_exch"
        /\ pc[u] = "r_lock"
        /\ lp[l].pc = "l_exch"

\* C2: at most one _refresh_at call is between acquiring and releasing the
\* lock, and that call is the one recorded as holding it.
C2_RefreshMutualExclusion ==
    /\ Cardinality({t \in Tasks : pc[t] \in InRefresh}) <= 1
    /\ \A t \in Tasks : pc[t] \in InRefresh => lock = t

\* two calls for different credentials, one inside, the other kept waiting
C2_Witness ==
    \E t, u \in Tasks :
        /\ pc[t] = "r_write"
        /\ pc[u] = "r_lock"
        /\ loc[t].id # loc[u].id

\* C3: for a stored credential, is_at_valid goes to _refresh_at exactly when
\* the access token is absent, or the expiry is absent, or the expiry is
\* less than 3600 seconds ahead; otherwise it returns True and neither
\* issues an exchange nor writes the store.  When it goes to _refresh_at it
\* returns what the refresh returns: True after a written exchange, False
\* after a failed one.
C3_IsAtValidRefreshesIff ==
    [][\A t \in Tasks :
        /\ (/\ pc[t] = "v_read"
            /\ pc'[t] # "v_read"
            /\ loc[t].op = "is_at_valid"
            /\ loc[t].id \in DOMAIN tokens) =>
              LET tok == tokens[loc[t].id]
                  due == \/ tok.at = 0
                         \/ tok.at_expires = NoExpiry
                         \/ tok.at_expires - now < 3600
              IN  /\ due <=> pc'[t] = "r_lock"
                  /\ ~due => /\ pc'[t] = "done"
                             /\ loc'[t].ret = TRUE
                             /\ tokens' = tokens
                             /\ nExch' = nExch
        /\ (/\ loc[t].op = "is_at_valid"
            /\ pc[t] \in InRefresh
            /\ pc'[t] = "done") =>
              loc'[t].ret = (pc[t] \in {"r_credits", "r_wcredits"})
      ]_vars

\* is_at_valid has returned True for an access token that expires in
\* exactly 3600 seconds, and no exchange was issued
C3_Witness ==
    \E t \in Tasks :
        /\ pc[t] = "done"
        /\ loc[t].op = "is_at_valid"
        /\ loc[t].ret = TRUE
        /\ tokens[loc[t].id].at_expires - now = 3600
        /\ nExch = Cardinality(TokenIds)

C7_OnlyEnableReactivates ==
    [][\A id \in DOMAIN tokens :
        (~tokens[id].is_active /\ tokens'[id].is_active) =>
            \E t \in Tasks : /\ pc[t] = "en_write"
                             /\ pc'[t] = "en_reset"
                             /\ loc[t].id = id
      ]_vars

\* a quarantined credential has been refreshed by the scheduler or the
\* endpoints and has had an error recorded, and is still quarantined
C7_Witness ==
    \E id \in DOMAIN tokens :
        /\ ~tokens[id].is_active
        /\ tokens[id].at > Cardinality(TokenIds)
        /\ stats[id].error_count > 0
        /\ ~tokens[id].image_enabled

\* the credential the loop is working on
Current(r) == r.snap[r.i].id

\* C8 as stated: whenever the scheduler loop issues an exchange for a
\* credential, or commits that credential's at, at_expires or credits, the
\* credential's is_active is true in the store at that moment.
C8_SchedulerSkipsQuarantined ==
    [][\A l \in LoopIds :
        /\ (lp'[l].pc = "l_exch" /\ lp'[l] # lp[l]) =>
              tokens'[Current(lp'[l])].is_active
        /\ (lp[l].pc = "l_commit" /\ tokens' # tokens) =>
              tokens[Current(lp[l])].is_active
      ]_vars

\* the awaits of _update_tokens that belong to one entry of the snapshot
InEntry == {"l_exch", "l_write", "l_credits", "l_wcredits", "l_commit", "l_disable"}

\* C11: in a cycle that is not cancelled, the loop starts with the first
\* entry of its snapshot of active credentials; every step it takes while
\* working on an entry either stays on that entry, or -- from the commit or
\* from the disable, whether the disable succeeded or failed -- issues the
\* exchange for the next entry of the same snapshot, or ends the cycle when
\* the entry was the last one.
C11_CycleAttemptsEveryEntry ==
    [][\A l \in LoopIds :
        LET r == lp[l]
            q == lp'[l]
        IN  /\ (r.pc = "l_select" /\ q.pc \in InEntry) =>
                  /\ q.pc = "l_exch"
                  /\ q.i = 1
                  /\ q.snap = ActiveRows(tokens)
            /\ (r.pc \in InEntry /\ q # r) =>
                  \/ /\ q.pc \in InEntry
                     /\ q.snap = r.snap
                     /\ q.i = r.i
                  \/ /\ r.pc \in {"l_commit", "l_disable"}
                     /\ r.i < Len(r.snap)
                     /\ q.pc = "l_exch"
                     /\ q.snap = r.snap
                     /\ q.i = r.i + 1
                     /\ nExch' = nExch + 1
                  \/ /\ r.pc \in {"l_commit", "l_disable"}
                     /\ r.i = Len(r.snap)
                     /\ q.pc = "l_close"
      ]_vars

\* the exchange for the second entry is in flight after the first entry's
\* exchange (or write) failed and the attempt to disable it failed as well
C11_Witness ==
    \E l \in LoopIds :
        /\ lp[l].pc = "l_exch"
        /\ lp[l].i = 2
        /\ tokens[1].is_active
        /\ tokens[1].at = 1
        /\ pc = [t \in Tasks |-> "idle"]
        /\ tokens[2].is_active

\* C12: the step of add_token that finds its secret in the store ends the
\* call with an error: no exchange is issued, the call never reaches the
\* balance fetch or the project creation, and the tokens and projects tables
\* are unchanged.
C12_DuplicateSecretRejected ==
    [][\A t \in Tasks :
        (/\ pc[t] = "a_check"
         /\ pc'[t] # "a_check"
         /\ \E i \in DOMAIN tokens : tokens[i].st = loc[t].st) =>
            /\ pc'[t] = "done"
            /\ loc'[t].err = "ValueError"
            /\ ~loc'[t].ret
            /\ nExch' = nExch
            /\ tokens' = tokens
            /\ projects' = projects
      ]_vars

\* add_token has raised for a stored secret without any exchange
C12_Witness ==
    \E t \in Tasks :
        /\ pc[t] = "done"
        /\ loc[t].op = "add_token"
        /\ loc[t].err = "ValueError"
        /\ loc[t].at = 0
        /\ \E i \in DOMAIN tokens : tokens[i].st = loc[t].st
        /\ nExch = Cardinality(TokenIds)

\* C14: no step of add_token before the insert writes the tokens or the
\* projects table, and a failed exchange or a failed project creation ends
\* the call with an error at once: a call that ends with an error has
\* inserted no row.
C14_FailedAddPersistsNothing ==
    [][\A t \in Tasks :
        /\ (pc[t] \in {"a_check", "a_exch", "a_credits", "a_project"}
                /\ pc'[t] # pc[t]) =>
              /\ tokens' = tokens
              /\ projects' = projects
        /\ (pc[t] \in {"a_exch", "a_project"} /\ pc'[t] = "done") =>
              loc'[t].err = "ValueError"
        /\ (pc[t] # "done" /\ pc'[t] = "done" /\ loc'[t].err # "none") =>
              /\ loc'[t].id = 0
              /\ tokens' = tokens
              /\ projects' = projects
      ]_vars

\* add_token has raised at the project creation, after the exchange and the
\* balance fetch succeeded, and the store holds what it held at the start
C14_Witness ==
    \E t \in Tasks :
        /\ pc[t] = "done"
        /\ loc[t].err = "ValueError"
        /\ loc[t].at # 0
        /\ loc[t].credits \in CreditValues
        /\ DOMAIN tokens = TokenIds
        /\ \A i \in DOMAIN tokens : tokens[i].st # loc[t].st
        /\ Cardinality(projects) = Cardinality(TokenIds)

\* C13 as stated: no two stored credentials have the same session secret.
C13_SecretsUnique ==
    \A i, j \in DOMAIN tokens : tokens[i].st = tokens[j].st => i = j

\* C17 as stated: whenever no add, import or delete call is under way, the
\* credential ids in the ledger are the stored credential ids.
C17_LedgerTracksStore ==
    (\A t \in Tasks : pc[t] = "idle") => DOMAIN ledger = DOMAIN tokens

\* C15 as stated: every access token stored for a credential was returned by
\* an exchange (exchange k returns access token k, so the stored values are
\* among 1..nExch; 0 stands for no access token).
C15_AccessTokensAreExchanged ==
    \A id \in DOMAIN tokens : tokens[id].at \in 0..nExch

\* C16 as stated: is_at_valid on a credential that a failed refresh has left
\* inactive returns False and issues no exchange.
C16_InactiveShortCircuits ==
    [][\A t \in Tasks :
        (/\ loc[t].op = "is_at_valid"
         /\ loc[t].id \in DOMAIN tokens
         /\ ~tokens[loc[t].id].is_active
         /\ pc[t] \in {"v_read", "r_read"}
         /\ pc'[t] # pc[t]) =>
            /\ pc'[t] = "done"
            /\ ~loc'[t].ret
            /\ nExch' = nExch
      ]_vars

\* C20 as stated: an is_at_valid call that has waited for the lock issues an
\* exchange only if the stored access token is still due for a refresh, so
\* that concurrent calls for one credential make one exchange in total.
C20_WaitersDoNotExchangeAgain ==
    [][\A t \in Tasks :
        (/\ loc[t].op = "is_at_valid"
         /\ pc[t] = "r_read"
         /\ pc'[t] = "r_exch") =>
            \/ tokens[loc[t].id].at = 0
            \/ tokens[loc[t].id].at_expires = NoExpiry
            \/ tokens[loc[t].id].at_expires - now < 3600
      ]_vars

\* every count of the ledger led is at least zero and within a finite cap
WithinCap(led) ==
    \A id \in DOMAIN led, c \in Capabilities :
        /\ led[id][c] >= 0
        /\ tokens[id][CapColumn[c]] >= 0 => led[id][c] <= tokens[id][CapColumn[c]]

\* C18: the in-flight count of every credential and capability is at least
\* zero and, for a cap n >= 0, at most n; a tryAcquire on an unlimited
\* capability returns True, and one that finds the count at the cap returns
\* False and leaves the ledger unchanged.
C18_InflightWithinCap ==
    [][/\ WithinCap(ledger)
       /\ WithinCap(ledger')
       /\ \A t \in Tasks :
            (pc[t] = "cm_run" /\ loc[t].op = "try_acquire" /\ pc'[t] = "done") =>
                LET n == tokens[loc[t].id][CapColumn[loc[t].cap]]
                    k == ledger[loc[t].id][loc[t].cap]
                IN  /\ n = -1 => loc'[t].ret
                    /\ (n >= 0 /\ k = n) => (~loc'[t].ret /\ ledger' = ledger)
                    /\ loc'[t].ret => ledger'[loc[t].id][loc[t].cap] = k + 1]_vars

\* a tryAcquire has been refused on a credential whose only slot is taken
C18_Witness ==
    \E t \in Tasks :
        /\ pc[t] = "done"
        /\ loc[t].op = "try_acquire"
        /\ ~loc[t].ret
        /\ tokens[loc[t].id][CapColumn[loc[t].cap]] = 1
        /\ ledger[loc[t].id][loc[t].cap] = 1

\* a selection of task t returns in this step
Selects(t) == loc[t].op = "select" /\ pc[t] # "done" /\ pc'[t] = "done"

C21_SchedulerNotSerialized ==
    [][\A l \in LoopIds :
        (lp[l].pc = "l_commit" /\ lp'[l] # lp[l]) =>
            LET id == lp[l].snap[lp[l].i].id
            IN  /\ lock' = lock
                /\ id \in DOMAIN tokens =>
                      /\ tokens'[id].at = lp[l].at
                      /\ tokens'[id].at_expires = lp[l].exp]_vars

\* the lost update: a _refresh_at call has stored the access token of its
\* exchange for credential 1 and returned True, and the scheduler, whose
\* exchange for credential 1 was issued earlier, has committed after it as
\* the last write of its cycle: the stored access token is the older one
C21_Witness ==
    \E t \in Tasks, l \in LoopIds :
        /\ pc[t] = "done"
        /\ loc[t].op \in {"refresh_at", "is_at_valid"}
        /\ loc[t].id = 1
        /\ loc[t].ret
        /\ lp[l].pc = "l_close"
        /\ tokens[1].at > Cardinality(TokenIds)
        /\ tokens[1].at < loc[t].at

\* C22: when an enable_token call completes, its credential is active, its
\* consecutive-error counter is 0 and its historical counters are the ones
\* it had before the reset, whatever record_error calls interleave.
C22_EnableCompletesActive ==
    [][\A t \in Tasks :
        (pc[t] = "en_reset" /\ pc'[t] = "idle") =>
            LET id == loc[t].id
            IN  /\ tokens'[id].is_active
                /\ stats'[id].consecutive_error_count = 0
                /\ stats'[id].error_count = stats[id].error_count
                /\ stats'[id].today_error_count = stats[id].today_error_count]_vars

\* C23: ensure_project_exists issues at most one create_project call for a
\* credential, however many calls run concurrently, and every call that has
\* returned a project id has returned the one stored on the credential.
C23_ProjectCreatedOnce ==
    /\ \A id \in TokenIds : hist.creates[id] <= 1
    /\ \A t \in Tasks :
          (pc[t] = "done" /\ loc[t].op = "ensure_project_exists" /\ loc[t].ret) =>
              loc[t].project = tokens[loc[t].id].current_project_id

C25_FailedCycleRetries ==
    [][\A l \in LoopIds :
        (enabled /\ enabled' /\ ~lp[l].cancel /\ ~lp'[l].cancel /\ lp'[l] # lp[l]) =>
            /\ (lp[l].pc = "l_select" /\ lp'[l].pc \notin {"l_exch", "l_close"}) =>
                  lp'[l].pc = "l_backoff"
            /\ lp[l].pc = "l_backoff" => lp'[l].pc \in {"l_backoff", "l_select"}]_vars

\* a cycle has failed and its loop waits in the back-off, enabled still true
C25_Witness ==
    \E l \in LoopIds : lp[l].pc = "l_backoff" /\ enabled /\ ~lp[l].cancel

\* C26: a loop task that was in the sleep between cycles, or in the back-off,
\* when a stop() call cleared enabled starts no further _update_tokens cycle:
\* it stays in that sleep until it ends.
C26_StoppedLoopStartsNoCycle ==
    \A l \in hist.halted : lp[l].pc \in {"l_sleep", "l_backoff", "done"}

\* the steps the scheduler takes on one entry between the answer of the
\* exchange and the commit
InSuccess == {"l_write", "l_credits", "l_wcredits"}

C29_CreditsFailureIgnored ==
    [][\A t \in Tasks :
        (pc[t] = "r_credits" /\ pc'[t] \notin {"r_credits", "r_wcredits"}) =>
            LET id == loc[t].id
            IN  /\ pc'[t] = "done"
                /\ loc'[t].ret
                /\ lock' = NoTask
                /\ tokens' = tokens
                /\ stats' = stats
                /\ id \in DOMAIN tokens =>
                      /\ tokens'[id].at = loc[t].at
                      /\ tokens'[id].at_expires = loc[t].exp]_vars

\* a refresh has returned True without ever getting a balance: the new
\* access token is stored, the credential is active and its balance is the
\* one it had
C29_Witness ==
    \E t \in Tasks :
        /\ pc[t] = "done"
        /\ loc[t].ret
        /\ loc[t].at > Cardinality(TokenIds)
        /\ loc[t].credits = IdleLoc.credits
        /\ tokens[loc[t].id].at = loc[t].at
        /\ tokens[loc[t].id].at_expires = loc[t].exp
        /\ tokens[loc[t].id].is_active
        /\ tokens[loc[t].id].credits = 0
        /\ lock = NoTask

\* C30: in add_token the balance fetch never ends the call: whatever
\* get_credits does, the call goes on to the project step or the insert with
\* the store untouched, and when get_credits fails it goes on with balance 0
\* and no paygate tier; the insert stores the credential active with that
\* balance and tier, and the call then returns the credential.
C30_AddSurvivesCreditsFailure ==
    [][\A t \in Tasks :
        /\ (pc[t] = "a_credits" /\ pc'[t] # pc[t]) =>
              /\ pc'[t] \in {"a_insert", "a_project"}
              /\ loc'[t].err = "none"
              /\ tokens' = tokens
              /\ \/ loc'[t].credits = 0 /\ loc'[t].tier = NoTier
                 \/ loc'[t].credits \in CreditValues /\ loc'[t].tier \in Tiers
        /\ AddCreditsFail(t) =>
              /\ loc'[t].credits = 0
              /\ loc'[t].tier = NoTier
        /\ (pc[t] = "a_insert" /\ pc'[t] # pc[t]) =>
              /\ loc'[t].id \notin DOMAIN tokens
              /\ loc'[t].id \in DOMAIN tokens'
              /\ tokens'[loc'[t].id].is_active
              /\ tokens'[loc'[t].id].st = loc[t].st
              /\ tokens'[loc'[t].id].at = loc[t].at
              /\ tokens'[loc'[t].id].credits = loc[t].credits
              /\ tokens'[loc'[t].id].user_paygate_tier = loc[t].tier
        /\ (pc[t] = "a_pinsert" /\ pc'[t] # pc[t]) =>
              /\ pc'[t] = "done"
              /\ loc'[t].ret
              /\ loc'[t].err = "none"
      ]_vars

\* add_token has returned a credential whose balance fetch failed: it is
\* stored active with the access token of the exchange, balance 0 and no
\* paygate tier
C30_Witness ==
    \E t \in Tasks :
        /\ pc[t] = "done"
        /\ loc[t].op = "add_token"
        /\ loc[t].ret
        /\ loc[t].tier = NoTier
        /\ loc[t].id \in DOMAIN tokens
        /\ tokens[loc[t].id].is_active
        /\ tokens[loc[t].id].at = loc[t].at
        /\ tokens[loc[t].id].at # 0
        /\ tokens[loc[t].id].credits = 0
        /\ tokens[loc[t].id].user_paygate_tier = NoTier

\* the project_id add_token was called with (0: none supplied)
Supplied(t) == Param(loc[t].args, "project_id", 0)

\* C31: add_token issues create_project exactly when no project id was
\* supplied: after the balance step a call with a project id goes straight
\* to the insert with that id, a call without one waits for create_project
\* and takes the id it answers with; the insert stores the credential bound
\* to that id, and the last step stores a project record of that id for the
\* new credential id.
C31_ProjectCreatedIffNotSupplied ==
    [][\A t \in Tasks :
        /\ (pc[t] = "a_credits" /\ pc'[t] # pc[t]) =>
              IF Supplied(t) # 0
              THEN pc'[t] = "a_insert" /\ loc'[t].project = Supplied(t)
              ELSE pc'[t] = "a_project"
        /\ pc'[t] = "a_project" => Param(loc'[t].args, "project_id", 0) = 0
        /\ (pc[t] = "a_project" /\ pc'[t] = "a_insert") =>
              loc'[t].project \in ProjectIds
        /\ (pc[t] = "a_insert" /\ pc'[t] # pc[t]) =>
              /\ tokens'[loc'[t].id].current_project_id = loc[t].project
              /\ Supplied(t) # 0 => loc[t].project = Supplied(t)
              /\ Supplied(t) = 0 => loc[t].project \in ProjectIds
        /\ (pc[t] = "a_pinsert" /\ pc'[t] # pc[t]) =>
              [project_id |-> loc[t].project, token_id |-> loc[t].id] \in projects'
      ]_vars

\* two add_token calls have returned: one was given project id 7 and its
\* credential is bound to 7, the other was given none and its credential is
\* bound to the id create_project answered with; both have their project
\* record
C31_Witness ==
    \E t, u \in Tasks :
        /\ pc[t] = "done" /\ loc[t].op = "add_token" /\ loc[t].ret
        /\ pc[u] = "done" /\ loc[u].op = "add_token" /\ loc[u].ret
        /\ Supplied(t) = 7
        /\ Supplied(u) = 0
        /\ loc[t].id \in DOMAIN tokens /\ loc[u].id \in DOMAIN tokens
        /\ tokens[loc[t].id].current_project_id = 7
        /\ tokens[loc[u].id].current_project_id \in ProjectIds
        /\ [project_id |-> 7, token_id |-> loc[t].id] \in projects
        /\ [project_id |-> tokens[loc[u].id].current_project_id,
            token_id |-> loc[u].id] \in projects

\* C32: the step of update_admin_config that reaches the store makes the
\* requested value the threshold, and every record_error call compares the
\* counter it read after its increment with the threshold stored at that
\* moment: it goes on to disable the credential exactly when the counter is
\* at least that threshold, and returns without a write otherwise.
C32_ThresholdReadAfresh ==
    [][\A t \in Tasks :
        /\ (pc[t] = "cfg_write" /\ pc'[t] # pc[t]) => threshold' = loc[t].cnt
        /\ (pc[t] = "er_stats" /\ pc'[t] # pc[t]) =>
              loc'[t].cnt = stats[loc[t].id].consecutive_error_count
        /\ (pc[t] = "er_cfg" /\ pc'[t] # pc[t]) =>
              /\ tokens' = tokens
              /\ pc'[t] = "er_disable" <=> loc[t].cnt >= threshold
              /\ loc[t].cnt = stats[loc[t].id].consecutive_error_count
        /\ (pc[t] = "er_disable" /\ pc'[t] # pc[t]) =>
              ~tokens'[loc[t].id].is_active
      ]_vars

\* the threshold was lowered from the one the process started with to 1, and
\* a record_error call has quarantined a credential at its first error
C32_Witness ==
    \E id \in TokenIds :
        /\ threshold = 1
        /\ threshold < MaxThreshold
        /\ ~tokens[id].is_active
        /\ stats[id].error_count = 1
        /\ stats[id].consecutive_error_count = 1
        /\ pc = [t \in Tasks |-> "idle"]

\* C33: a _refresh_at call that leaves the section under the lock, on
\* whatever path, leaves the lock free, and the lock is never held by a call
\* that is not in that section; and every call that waits for the lock
\* eventually returns or raises.
C33_LockAlwaysReleased ==
    /\ [][\A t \in Tasks :
            /\ (pc[t] \in InRefresh /\ pc'[t] \notin InRefresh) => lock' = NoTask
            /\ (lock' # NoTask) => pc'[lock'] \in InRefresh]_vars
    /\ \A t \in Tasks : (pc[t] = "r_lock") ~> (pc[t] = "done")

\* a call has raised out of the failed disable that followed its failed
\* exchange, and the call that waited holds the lock
C33_Witness ==
    \E t, u \in Tasks :
        /\ pc[t] = "done"
        /\ loc[t].err = "Exception"
        /\ loc[t].at # 0
        /\ tokens[loc[t].id].is_active
        /\ pc[u] \in InRefresh
        /\ lock = u

\* C34 as stated: at most one loop task is alive at any instant, and while
\* no start() or stop() call is under way enabled is true exactly when task
\* refers to a loop task that is still running.
C34_OneLoopAndFlagAgree ==
    /\ Cardinality({l \in LoopIds : Running(l)}) <= 1
    /\ (\A t \in Tasks : pc[t] = "idle") =>
          (enabled <=> (task # 0 /\ Running(task)))

\* the token refresh configuration endpoints, the scheduler they drive and
\* its loop tasks; set_dependencies was given an app instance or none
InitRefreshConfig ==
    /\ InitProcess
    /\ \E a \in {NoApp, AppInstance} : SetDependencies(a)
    /\ InitSchedulerOff
    /\ tokens = [i \in {1} |-> TokenRow(i, i, 3601, TRUE)]
    /\ threshold = 1
    /\ InitLifespan

NextRefreshConfig ==
    \/ \E l \in LoopIds : LoopStep(l)
    \/ \E l \in LoopIds : LoopCancelled(l)
    \/ \E t \in Operator :
        \/ \E e \in BOOLEAN : CallUpdateRefreshEnabled(t, e)
        \/ RefreshEnabledWrite(t)
        \/ RefreshEnabledRaise(t)
        \/ StartBody(t)
        \/ StopBody(t)
        \/ StopResume(t)
        \/ Finish(t)
    \/ \E t \in Caller :
        \/ CallGetRefreshConfig(t)
        \/ RefreshConfigRead(t)
        \/ RefreshConfigAnswer(t)
        \/ Finish(t)

SpecRefreshConfig == InitRefreshConfig /\ [][NextRefreshConfig]_vars

\* the update_token_refresh_enabled call of task t returns or raises
RefreshEnabledEnds(t) ==
    /\ loc[t].op = "update_token_refresh_enabled"
    /\ pc[t] \in {"te_raise", "st_run", "sp_run", "sp_await"}
    /\ pc'[t] \in {"done", "idle"}

\* C35 as stated: when update_token_refresh_enabled finishes, with an answer
\* or with an error, for a requested value e, the stored
\* at_auto_refresh_enabled equals e exactly when the scheduler's running
\* state equals e.
C35_FlagAndSchedulerAgree ==
    [][\A t \in Tasks :
         RefreshEnabledEnds(t) =>
            ((at_auto_refresh_enabled' = loc[t].args.enabled)
               <=> (enabled' = loc[t].args.enabled))]_vars

\* C36: get_token_refresh_config reports scheduler_running = true only if,
\* when it returns, a scheduler loop task exists and has not finished.
C36_RunningReportedOnlyWithLoop ==
    [][\A t \in Tasks :
         (pc[t] = "tc_answer" /\ pc'[t] = "done" /\ loc'[t].ret)
            => \E l \in LoopIds : lp'[l].pc \notin {"none", "done"}]_vars

\* the endpoint answered running = true after a start() of its own, issued
\* while the cancelled task of a stop() had not finished yet
C36_Witness ==
    \E t \in Tasks :
        /\ pc[t] = "done"
        /\ loc[t].op = "get_token_refresh_config"
        /\ loc[t].ret
        /\ task # 0
        /\ lp[task].pc = "l_new"
        /\ \E l \in LoopIds : l # task /\ Running(l) /\ lp[l].cancel

\* logins, logouts and password changes of two concurrent requests
InitSession ==
    /\ InitCommon
    /\ InitSchedulerOff
    /\ tokens = [i \in {1} |-> TokenRow(i, i, 3601, TRUE)]
    /\ threshold = 1
    /\ InitLifespan

NextSession ==
    \E t \in Tasks :
        \/ CallLogin(t)
        \/ \E ok \in BOOLEAN : LoginVerify(t, ok)
        \/ \E token \in SessionTokens : Logout(t, token)
        \/ \E token \in SessionTokens : CallChangePassword(t, token)
        \/ \E ok \in BOOLEAN : ChangeVerify(t, ok)
        \/ ChangeWrite(t)
        \/ ChangeFail(t)
        \/ ChangeReload(t)
        \/ Finish(t)

SpecSession == InitSession /\ [][NextSession]_vars

\* C37: verify_admin_token accepts a bearer token exactly when a successful
\* login issued it and it has since neither been logged out nor been
\* invalidated by a successful password change; when change_password
\* completes successfully, every session token issued before that, one issued
\* by a login that interleaved with it included, is rejected.
C37_SessionValidity ==
    /\ [](\A token \in SessionTokens :
            VerifyAdminToken(token) <=> token \in hist.issued \ hist.revoked)
    /\ [][\A t \in Tasks :
            (pc[t] = "cp_reload" /\ pc'[t] = "done" /\ loc'[t].ret)
               => \A token \in hist.issued : ~VerifyAdminToken(token)']_vars

\* a password change has completed after a login that interleaved with it
\* had issued a second token, and a later request with that token was
\* answered 401
C37_Witness ==
    /\ hist.issued = {1, 2}
    /\ hist.interleaved = {2}
    /\ hist.revoked = {1, 2}
    /\ \E t \in Tasks :
        /\ pc[t] = "done"
        /\ loc[t].op = "change_password"
        /\ loc[t].id = 1
        /\ loc[t].ret
    /\ \E t \in Tasks :
        /\ pc[t] = "done"
        /\ loc[t].op = "admin_logout"
        /\ loc[t].id = 2
        /\ loc[t].err = "401"

\* PUT /api/tokens/{token_id} from two operators; the exchange answers with
\* an expiry, without one, or fails
InitUpdate ==
    /\ InitCommon
    /\ InitSchedulerOff
    /\ tokens = [i \in TokenIds |-> TokenRow(i, i, 3601, TRUE)]
    /\ threshold = 1
    /\ InitLifespan

NextUpdate ==
    \E t \in Tasks :
        \/ \E id \in DOMAIN tokens, req \in UpdateRequests :
              CallUpdateToken(t, id, req)
        \/ \E exp \in {NoExpiry, now + 3601} : UpdateExchangeOk(t, exp)
        \/ UpdateExchangeFail(t)
        \/ UpdateWrite(t)
        \/ Finish(t)

SpecUpdate == InitUpdate /\ [][NextUpdate]_vars

\* C38 as stated: when the st_to_at exchange of the submitted session secret
\* fails, the update_token endpoint reports an error and no field of the
\* stored credential is changed; when it succeeds, st, at and at_expires are
\* stored together from that one exchange.
C38_UpdateAllOrNothing ==
    [][\A t \in Tasks :
         /\ (pc[t] = "up_exch" /\ pc'[t] = "done")
               => (tokens' = tokens /\ ~loc'[t].ret)
         /\ (pc[t] = "up_write" /\ pc'[t] = "done")
               => /\ tokens'[loc[t].id].st = loc[t].st
                  /\ tokens'[loc[t].id].at = loc[t].at
                  /\ tokens'[loc[t].id].at_expires = loc[t].exp]_vars

\* add_token calls whose project insert may fail
NextAddFail ==
    \E t \in Tasks :
        \/ \E req \in AddRequests : CallAddToken(t, req)
        \/ AddStep(t)
        \/ AddInsertProjectFail(t)
        \/ Finish(t)

SpecAddFail == InitAdd /\ [][NextAddFail]_vars

\* C39 as stated: when an add_token call for a new secret ends, by returning
\* or by raising, a credential record for that secret exists exactly when a
\* project record linked to that credential's id exists.
C39_CredentialAndProjectTogether ==
    [][\A t \in Tasks :
         (/\ pc[t] \in {"a_exch", "a_credits", "a_project", "a_insert",
                        "a_pinsert"}
          /\ pc'[t] = "done")
            => \A id \in DOMAIN tokens' :
                  tokens'[id].st = loc[t].st
                     => \E p \in projects' : p.token_id = id]_vars

=============================================================================
